---- MODULE Spec2Model ----
(***************************************************************************)
(* A model of the code-understanding engine of agentx                      *)
(* (agentx/common_libraries/code_indexer.py, class CodeIndexer): indexing  *)
(* of a source tree into a dependency graph and a semantic index, and the  *)
(* ranking of modification suggestions.                                    *)
(*                                                                         *)
(* Real-valued scores are kept in thousandths (1.0 is 1000).  A quotient   *)
(* the code computes with true division (total / max(1, count)) is kept as *)
(* an exact fraction [num, den]; den = 0 stands for Python's None.         *)
(***************************************************************************)
EXTENDS Integers, Sequences, FiniteSets, TLC

\* ------------------------------------------------------------------ bounds
\* Number of index_codebase runs one behaviour may hold.
MaxRuns == 3
\* Number of edits of the source tree one behaviour may hold.
MaxEdits == 1

\* --------------------------------------------------------------- utilities
Min(a, b) == IF a <= b THEN a ELSE b
Max(a, b) == IF a >= b THEN a ELSE b
Range(s) == {s[i] : i \in DOMAIN s}

RECURSIVE SumSeq(_)
SumSeq(s) == IF s = <<>> THEN 0 ELSE Head(s) + SumSeq(Tail(s))

\* Python's None for an Optional[number]: a fraction with denominator 0.
NoneNum == [num |-> 0, den |-> 0]
Num(n) == [num |-> n, den |-> 1]
IsNone(q) == q.den = 0
\* Python truthiness of an Optional[number]: neither None nor zero.
Truthy(q) == q.den # 0 /\ q.num # 0
\* Python's None for an Optional[List[str]].
NoneList == [some |-> FALSE, val |-> <<>>]
SomeList(l) == [some |-> TRUE, val |-> l]
\* Python truthiness of an Optional[List]: neither None nor empty.
TruthyList(o) == o.some /\ o.val # <<>>

\* ------------------------------------------------- source files (inputs)
\* A syntax-tree node of a function or class definition, reduced to what the
\* analyzers read.  names: every Name id and call target in the subtree
\* (what _extract_dependencies collects).  methods: the positions, in the
\* file's node list, of the FunctionDef nodes ast.walk finds inside a class.
\* chars_sec / chars_perf: the rules of SECURITY_PATTERNS / the number of
\* PERFORMANCE_PATTERNS that match content[lineno-1:end_lineno], the slice
\* of the file's characters _index_file stores as code_snippet.
\* lines_sec, cc, nl: the rules that match the text of lines lineno..end_lineno
\* (security rules, the complex_condition rule, the nested_loops rule).
N0 ==
    [name |-> "A", kind |-> "FunctionDef", lineno |-> 1, end_lineno |-> 2,
     col |-> 0, doc |-> FALSE, names |-> {}, ifs |-> 0, loops |-> 0,
     boolops |-> 0, handlers |-> 0, selfcalls |-> FALSE, lists |-> 0,
     sets |-> 0, params |-> 0, methods |-> <<>>, chars_sec |-> <<>>,
     chars_perf |-> 0, lines_sec |-> <<>>, cc |-> FALSE, nl |-> FALSE]

\* def A(): B()                                  (lines 1-2)
NodeA1 == [N0 EXCEPT !.names = {"B"}]
\* def A(p1..p6) with a docstring, an if, eval( in its body  (lines 1-3)
NodeA2 == [N0 EXCEPT !.names = {"B", "C"}, !.end_lineno = 3, !.doc = TRUE,
                     !.ifs = 1, !.params = 6, !.lines_sec = <<"shell_injection">>]
\* lines 1-2 of the file holding NodeA2: the def line and the first body line
NodeA2Cut == [NodeA2 EXCEPT !.end_lineno = 2, !.doc = FALSE, !.ifs = 0,
                            !.names = {"B"}, !.lines_sec = <<>>]
\* def A(n): two nested loops, a list literal, calls itself  (lines 1-18)
NodeARec == [N0 EXCEPT !.names = {"A", "n"}, !.end_lineno = 18, !.loops = 2,
                       !.selfcalls = TRUE, !.lists = 1, !.nl = TRUE,
                       !.boolops = 2, !.cc = TRUE, !.chars_perf = 1]
\* class C: pass                                 (lines 1-2)
NodeCEmpty == [N0 EXCEPT !.name = "C", !.kind = "ClassDef"]
\* def B(): C()                                  (lines 1-2)
NodeB1 == [N0 EXCEPT !.name = "B", !.names = {"C"}]
\* def C(): calls A inside four loops and a try with one handler (lines 4-6)
NodeC1 == [N0 EXCEPT !.name = "C", !.names = {"A"}, !.lineno = 4,
                     !.end_lineno = 6, !.handlers = 1, !.loops = 4,
                     !.chars_sec = <<"path_traversal">>]
\* def B(n): calls itself, A and C                (lines 1-9)
NodeBRec == [N0 EXCEPT !.name = "B", !.names = {"A", "B", "C", "n"},
                       !.end_lineno = 9, !.selfcalls = TRUE, !.ifs = 2,
                       !.params = 1, !.doc = TRUE]
\* class B with one method C (indented, lines 2-5) that loops and calls A
NodeBCls == [N0 EXCEPT !.name = "B", !.kind = "ClassDef", !.end_lineno = 5,
                       !.names = {"A", "self"}, !.methods = <<2>>, !.loops = 1,
                       !.chars_perf = 2]
NodeBMeth == [N0 EXCEPT !.name = "C", !.lineno = 2, !.end_lineno = 5,
                        !.col = 4, !.names = {"A", "self"}, !.loops = 1,
                        !.params = 1]

\* A file: whether it exists, whether ast.parse accepts its text, its definition nodes in
\* ast.walk order, and what lines [start, end] of it parse to when they are
\* not the lines of one of its nodes (cuts).
BadFile == [exists |-> TRUE, ok |-> FALSE, nodes |-> <<>>, cuts |-> {}]
FileA1 == [exists |-> TRUE, ok |-> TRUE, nodes |-> <<NodeA1>>, cuts |-> {}]
FileA2 == [exists |-> TRUE, ok |-> TRUE, nodes |-> <<NodeA2>>, cuts |-> {NodeA2Cut}]
FileARec == [exists |-> TRUE, ok |-> TRUE, nodes |-> <<NodeARec>>, cuts |-> {}]
FileCEmpty == [exists |-> TRUE, ok |-> TRUE, nodes |-> <<NodeCEmpty>>, cuts |-> {}]
FileB1 == [exists |-> TRUE, ok |-> TRUE, nodes |-> <<NodeB1, NodeC1>>, cuts |-> {}]
FileBCls == [exists |-> TRUE, ok |-> TRUE, nodes |-> <<NodeBCls, NodeBMeth>>, cuts |-> {}]
FileBRec == [exists |-> TRUE, ok |-> TRUE, nodes |-> <<NodeBRec>>, cuts |-> {}]

\* The files of the workspace, in the order os.walk lists them.
PathSeq == <<"a.py", "b.py">>
Paths == Range(PathSeq)
Absent == [exists |-> FALSE, ok |-> FALSE, nodes |-> <<>>, cuts |-> {}]
\* The texts each file may hold.
Texts(p) ==
    IF p = "a.py" THEN {BadFile, FileA1, FileA2, FileARec, FileCEmpty}
    ELSE {BadFile, FileB1, FileBCls, FileBRec}
FileSystems == {f \in [Paths -> UNION {Texts(p) \cup {Absent} : p \in Paths}] :
                   \A p \in Paths : f[p] \in Texts(p) \cup {Absent}}

\* ------------------------------------------------------------- analyzers
\* The text an entity carries as code_snippet, reduced to what the regular
\* expressions and the line count read.  unit = "chars": a slice of the
\* file's characters; unit = "lines": whole lines.
Snippet(unit, node) ==
    [unit |-> unit, from |-> node.lineno, to |-> node.end_lineno,
     sec |-> IF unit = "chars" THEN node.chars_sec ELSE node.lines_sec,
     perf |-> IF unit = "chars" THEN node.chars_perf ELSE 0,
     nlines |-> IF unit = "chars" THEN 1 ELSE node.end_lineno - node.lineno + 1,
     cc |-> unit = "lines" /\ node.cc,
     nl |-> unit = "lines" /\ node.nl]

\* content[node.lineno-1:node.end_lineno]: a str slice, so characters.
SliceUnit == "chars"

\* analyze_security: one message per rule that matches entity.code_snippet.
analyze_security(entity) == entity.code_snippet.sec

\* analyze_complexity counting a Try as nothing.
analyze_complexity_no_try(node) ==
    1 + node.ifs + node.loops + node.boolops

\* analyze_complexity: 1, +1 per If/While/For, +(operands - 1) per BoolOp,
\* +(handlers) per Try.
analyze_complexity(node) ==
    1 + node.ifs + node.loops + node.boolops + node.handlers

\* analyze_code_smells: the list of smells, in the order the code appends.
analyze_code_smells(entity, node) ==
    (IF entity.code_snippet.nlines > 15 THEN <<"Method is too long">> ELSE <<>>)
    \o (IF node.kind = "FunctionDef" /\ node.params > 5
        THEN <<"Too many parameters">> ELSE <<>>)
    \o (IF entity.code_snippet.cc THEN <<"Contains complex condition">> ELSE <<>>)
    \o (IF entity.code_snippet.nl THEN <<"Contains nested loops">> ELSE <<>>)

\* A complexity class: O(1), O(n), O(n^k) with its k, O(2^n).
Class(c, k) == [cls |-> c, k |-> k]

\* has_recursion of both estimators: a call to a Name equal to node.name,
\* only when node is a FunctionDef.
HasRecursion(node) == node.kind = "FunctionDef" /\ node.selfcalls

_analyze_time_complexity(node) ==
    IF HasRecursion(node) THEN Class("O(2^n)", 0)
    ELSE IF node.loops > 1 THEN Class("O(n^k)", node.loops)
    ELSE IF node.loops = 1 THEN Class("O(n)", 0)
    ELSE Class("O(1)", 0)

\* array_allocations counts ast.List and ast.Dict nodes only.
_analyze_space_complexity(node) ==
    IF HasRecursion(node) THEN Class("O(n)", 0)
    ELSE IF node.lists > 0 THEN Class("O(n)", 0)
    ELSE Class("O(1)", 0)

\* complexity_penalties.get(c, default): the table has O(n^2) and O(n^3)
\* only among the polynomial classes.
Penalty(c, default) ==
    IF c.cls = "O(1)" THEN 0
    ELSE IF c.cls = "O(n)" THEN 200
    ELSE IF c.cls = "O(n^k)" /\ c.k = 2 THEN 400
    ELSE IF c.cls = "O(n^k)" /\ c.k = 3 THEN 600
    ELSE IF c.cls = "O(2^n)" THEN 800
    ELSE default

_calculate_complexity_penalty(time_complexity, space_complexity) ==
    (Penalty(time_complexity, 500) + Penalty(space_complexity, 300)) \div 2

\* analyze_performance: 1.0, -0.1 per matching rule, - penalty, floor 0.1.
analyze_performance(entity, node) ==
    LET time == _analyze_time_complexity(node)
        space == _analyze_space_complexity(node)
        score == 1000 - 100 * entity.code_snippet.perf
    IN  [time_complexity |-> time, space_complexity |-> space,
         performance_score |->
             Max(100, score - _calculate_complexity_penalty(time, space))]

\* --------------------------------------------------------- entity extraction
\* The extraction with the complexities of the methods of a class summed up.
ExtractEntity_total(path, file, i) ==
    LET node == file.nodes[i]
        entity == [name |-> node.name,
                   type |-> IF node.kind = "FunctionDef" THEN "function" ELSE "class",
                   file_path |-> path,
                   start_line |-> node.lineno,
                   end_line |-> node.end_lineno,
                   docstring |-> node.doc,
                   dependencies |-> node.names,
                   code_snippet |-> Snippet(SliceUnit, node),
                   complexity |-> NoneNum,
                   security_issues |-> NoneList,
                   performance_score |-> NoneNum]
        methods == [j \in DOMAIN node.methods |-> file.nodes[node.methods[j]]]
        method_count == Len(methods)
        total_complexity ==
            SumSeq([j \in DOMAIN methods |-> analyze_complexity(methods[j])])
        total_performance_score ==
            SumSeq([j \in DOMAIN methods |->
                       analyze_performance(entity, methods[j]).performance_score])
    IN  IF node.kind = "FunctionDef"
        THEN [entity EXCEPT
                !.complexity = Num(analyze_complexity(node)),
                !.security_issues = SomeList(analyze_security(entity)),
                !.performance_score =
                    Num(analyze_performance(entity, node).performance_score)]
        ELSE [entity EXCEPT
                !.complexity = [num |-> total_complexity, den |-> 1],
                !.security_issues = SomeList(analyze_security(entity)),
                !.performance_score = [num |-> total_performance_score,
                                       den |-> Max(1, method_count)]]

\* The CodeEntity _index_file builds for node i of a file (lines 432-479).
\* docstring is kept as its presence.  A FunctionDef gets its own complexity,
\* findings and performance; a ClassDef gets the quotients over the
\* FunctionDef nodes inside it.
ExtractEntity(path, file, i) ==
    LET node == file.nodes[i]
        entity == [name |-> node.name,
                   type |-> IF node.kind = "FunctionDef" THEN "function" ELSE "class",
                   file_path |-> path,
                   start_line |-> node.lineno,
                   end_line |-> node.end_lineno,
                   docstring |-> node.doc,
                   dependencies |-> node.names,
                   code_snippet |-> Snippet(SliceUnit, node),
                   complexity |-> NoneNum,
                   security_issues |-> NoneList,
                   performance_score |-> NoneNum]
        methods == [j \in DOMAIN node.methods |-> file.nodes[node.methods[j]]]
        method_count == Len(methods)
        total_complexity ==
            SumSeq([j \in DOMAIN methods |-> analyze_complexity(methods[j])])
        total_performance_score ==
            SumSeq([j \in DOMAIN methods |->
                       analyze_performance(entity, methods[j]).performance_score])
    IN  IF node.kind = "FunctionDef"
        THEN [entity EXCEPT
                !.complexity = Num(analyze_complexity(node)),
                !.security_issues = SomeList(analyze_security(entity)),
                !.performance_score =
                    Num(analyze_performance(entity, node).performance_score)]
        ELSE [entity EXCEPT
                !.complexity = [num |-> total_complexity,
                                den |-> Max(1, method_count)],
                !.security_issues = SomeList(analyze_security(entity)),
                !.performance_score = [num |-> total_performance_score,
                                       den |-> Max(1, method_count)]]

\* The entities list of _index_file for a file that parses.
Entities(path, file) ==
    [i \in DOMAIN file.nodes |-> ExtractEntity(path, file, i)]

\* --------------------------------------------------------- dependency graph
EmptyGraph == [nodes |-> {}, edges |-> {}]

\* add_node(entity.name), then add_edge(entity.name, dep) for every dep;
\* add_edge adds both of its end nodes.
AddEntity(G, entity) ==
    [nodes |-> G.nodes \cup {entity.name} \cup entity.dependencies,
     edges |-> G.edges \cup {<<entity.name, d>> : d \in entity.dependencies}]

RECURSIVE AddEntities(_, _)
AddEntities(G, entities) ==
    IF entities = <<>> THEN G
    ELSE AddEntities(AddEntity(G, Head(entities)), Tail(entities))

\* get_dependencies: predecessors and successors, empty for an unknown name.
get_dependencies(G, entity_name) ==
    IF entity_name \notin G.nodes
    THEN [incoming |-> {}, outgoing |-> {}]
    ELSE [incoming |-> {m \in G.nodes : <<m, entity_name>> \in G.edges},
          outgoing |-> {m \in G.nodes : <<entity_name, m>> \in G.edges}]

Last(path) == path[Len(path)]

\* Every simple path of G that starts with the given path.
RECURSIVE PathsFrom(_, _)
PathsFrom(G, path) ==
    {path} \cup
    UNION {PathsFrom(G, Append(path, m)) :
              m \in {n \in G.nodes : /\ <<Last(path), n>> \in G.edges
                                     /\ n \notin Range(path)}}

\* simple_cycles without the one-node cycles of self-references.
simple_cycles_no_self(G) ==
    {p \in UNION {PathsFrom(G, <<n>>) : n \in G.nodes} :
        Len(p) > 1 /\ <<Last(p), p[1]>> \in G.edges}

\* nx.simple_cycles: the elementary cycles, each as the list of its nodes
\* (here in every rotation, which membership tests do not tell apart).
simple_cycles(G) ==
    {p \in UNION {PathsFrom(G, <<n>>) : n \in G.nodes} :
        <<Last(p), p[1]>> \in G.edges}

\* nx.all_simple_paths(G, source, targets) as lists of nodes.  networkx up
\* to 3.1 yields nothing at all when source is one of the targets; later
\* releases yield the one-node path [source] for it.
all_simple_paths(G, source, targets, legacy) ==
    IF legacy /\ source \in targets THEN {}
    ELSE {p \in PathsFrom(G, <<source>>) :
             /\ Last(p) \in targets
             /\ (Len(p) > 1 \/ source \in targets)}

SetMax(S) == CHOOSE x \in S : \A y \in S : y <= x

\* The score with the depth term left uncapped.
_calculate_dependency_risk_score_deep(has_circular, depth, direct_deps, dependents) ==
    Min(1000, (IF has_circular THEN 400 ELSE 0)
              + depth * 100
              + Min(150, direct_deps * 30)
              + Min(150, dependents * 30))

_calculate_dependency_risk_score(has_circular, depth, direct_deps, dependents) ==
    Min(1000, (IF has_circular THEN 400 ELSE 0)
              + Min(300, depth * 100)
              + Min(150, direct_deps * 30)
              + Min(150, dependents * 30))

\* analyze_dependencies_risk.  max() of an empty sequence raises ValueError,
\* which the except clause (NetworkXNoPath) does not catch.
analyze_dependencies_risk(G, entity_name, legacy) ==
    LET deps == get_dependencies(G, entity_name)
        is_in_circular == \E cycle \in simple_cycles(G) : entity_name \in Range(cycle)
        paths == IF deps.outgoing = {} THEN {}
                 ELSE all_simple_paths(G, entity_name, deps.outgoing, legacy)
        raised == deps.outgoing # {} /\ paths = {}
        max_depth == IF paths = {} THEN 0 ELSE SetMax({Len(p) : p \in paths})
    IN  [raised |-> raised,
         circular_dependencies |-> is_in_circular,
         dependency_depth |-> max_depth,
         direct_dependencies |-> Cardinality(deps.outgoing),
         dependent_modules |-> Cardinality(deps.incoming),
         risk_score |-> _calculate_dependency_risk_score(
                            is_in_circular, max_depth,
                            Cardinality(deps.outgoing),
                            Cardinality(deps.incoming))]

\* ------------------------------------------------------------ semantic index
\* The record _add_to_vector_db composes for the i-th entity of a file
\* (enumerate counts from 0): id "<file_path>:<name>:<i>".
RecordOf(entity, i) ==
    [id |-> <<entity.file_path, entity.name, i - 1>>,
     document |-> [name |-> entity.name, type |-> entity.type,
                   docstring |-> entity.docstring,
                   code_snippet |-> entity.code_snippet],
     metadata |-> [name |-> entity.name, type |-> entity.type,
                   file_path |-> entity.file_path,
                   start_line |-> entity.start_line,
                   end_line |-> entity.end_line]]

Records(entities) == [i \in DOMAIN entities |-> RecordOf(entities[i], i)]

EmptyCollection == <<>>

\* What a stored record becomes when add() meets its id again: the Chroma
\* collection keeps the record it holds.
OnSameId(held, new) == held

\* Collection.add of the Chroma store.  An id the collection already holds is
\* either refused with an error for the whole call (dup_raises) or skipped;
\* the record held under it is kept in both cases.
collection_add(coll, recs, dup_raises) ==
    LET ids == {recs[i].id : i \in DOMAIN recs}
        rec(id) == recs[CHOOSE i \in DOMAIN recs : recs[i].id = id]
        stored(id) == [document |-> rec(id).document,
                       metadata |-> rec(id).metadata]
    IN  IF dup_raises /\ ids \cap DOMAIN coll # {}
        THEN [raised |-> TRUE, coll |-> coll]
        ELSE [raised |-> FALSE,
              coll |-> [id \in DOMAIN coll \cup ids |->
                           IF id \in DOMAIN coll
                           THEN IF id \in ids THEN OnSameId(coll[id], stored(id))
                                ELSE coll[id]
                           ELSE stored(id)]]

LogEntry(event, file) == [event |-> event, file |-> file]
\* The error record of one record's insert: entity_id and file_path.
LogEntityEntry(event, file, id) == [event |-> event, file |-> file, id |-> id]

\* How the store answers the inserts of one _add_to_vector_db call: whether
\* it refuses an id it holds, whether the bulk insert fails for another
\* reason, and the ids whose single insert fails for another reason.
Store(dup_raises, bulk_fails, single_fails) ==
    [dup_raises |-> dup_raises, bulk_fails |-> bulk_fails,
     single_fails |-> single_fails]

\* One code_collection.add call inside a try block: it raises when the store
\* fails it, and changes nothing then.
TryAdd(coll, recs, store, fails) ==
    IF fails THEN [raised |-> TRUE, coll |-> coll]
    ELSE collection_add(coll, recs, store.dup_raises)

\* The record-by-record retry stopping at the first record that fails.
RECURSIVE AddOneByOneUntilError(_, _, _, _)
AddOneByOneUntilError(coll, recs, store, log) ==
    IF recs = <<>> THEN [coll |-> coll, log |-> log]
    ELSE LET r == TryAdd(coll, <<Head(recs)>>, store,
                         Head(recs).id \in store.single_fails)
         IN  IF r.raised
             THEN [coll |-> r.coll,
                   log |-> Append(log, LogEntityEntry("Error adding single entity",
                                           Head(recs).metadata.file_path,
                                           Head(recs).id))]
             ELSE AddOneByOneUntilError(r.coll, Tail(recs), store, log)

\* The record-by-record retry of _add_to_vector_db (lines 560-573).
RECURSIVE AddOneByOne(_, _, _, _)
AddOneByOne(coll, recs, store, log) ==
    IF recs = <<>> THEN [coll |-> coll, log |-> log]
    ELSE LET r == TryAdd(coll, <<Head(recs)>>, store,
                         Head(recs).id \in store.single_fails)
         IN  AddOneByOne(r.coll, Tail(recs), store,
                 IF r.raised
                 THEN Append(log, LogEntityEntry("Error adding single entity",
                                           Head(recs).metadata.file_path,
                                           Head(recs).id))
                 ELSE log)

\* _add_to_vector_db: nothing for an empty list; one bulk add; on its
\* failure one add per record.  Never raises.
_add_to_vector_db(coll, entities, store) ==
    IF entities = <<>>
    THEN [coll |-> coll, log |-> <<>>, submitted |-> {}]
    ELSE LET recs == Records(entities)
             bulk == TryAdd(coll, recs, store, store.bulk_fails)
             retry == AddOneByOne(coll, recs, store,
                          <<LogEntry("Error adding to vector database",
                                     recs[1].metadata.file_path)>>)
         IN  IF ~bulk.raised
             THEN [coll |-> bulk.coll, log |-> <<>>, submitted |-> Range(recs)]
             ELSE [coll |-> retry.coll, log |-> retry.log,
                   submitted |-> Range(recs)]

\* ------------------------------------------------------------- _index_file
\* What the body of the try block changes for a file that parses.
GraphAfter(G, entities) == AddEntities(G, entities)

\* _index_file logging the exception and raising it again.
_index_file_reraise(G, coll, path, file, store) ==
    IF ~file.ok
    THEN [graph |-> G, coll |-> coll, entities |-> <<>>, submitted |-> {},
          log |-> <<LogEntry("Error indexing file", path)>>, raised |-> TRUE]
    ELSE LET entities == Entities(path, file)
             added == _add_to_vector_db(coll, entities, store)
         IN  [graph |-> AddEntities(G, entities), coll |-> added.coll,
              entities |-> entities, submitted |-> added.submitted,
              log |-> added.log, raised |-> FALSE]

\* _index_file(file_path): open, parse, extract, add to the graph, add to
\* the index; any exception is logged with the file and swallowed, so the
\* call itself never raises.
_index_file(G, coll, path, file, store) ==
    IF ~file.ok
    THEN [graph |-> G, coll |-> coll, entities |-> <<>>, submitted |-> {},
          log |-> <<LogEntry("Error indexing file", path)>>, raised |-> FALSE]
    ELSE LET entities == Entities(path, file)
             added == _add_to_vector_db(coll, entities, store)
         IN  [graph |-> GraphAfter(G, entities), coll |-> added.coll,
              entities |-> entities, submitted |-> added.submitted,
              log |-> added.log, raised |-> FALSE]

\* --------------------------------------------------------------- suggestions
\* find_relevant_code(query, limit = 5)
Limit == 5

\* A task description: the keywords _suggest_modification_type looks for
\* that it contains, and the end of the collection its embedding lies
\* nearest to.
Queries == {[words |-> {"bug"}, nearest |-> "low"],
            [words |-> {"feature", "refactor"}, nearest |-> "high"]}

\* A fixed order of the record ids, standing for embedding distance.
IdOrd(id) ==
    (CHOOSE i \in DOMAIN PathSeq : PathSeq[i] = id[1]) * 100
    + (CHOOSE i \in 1..3 : <<"A", "B", "C">>[i] = id[2]) * 10 + id[3]

RECURSIVE Ranked(_, _)
Ranked(ids, nearest) ==
    IF ids = {} THEN <<>>
    ELSE LET first == CHOOSE x \in ids : \A y \in ids :
                          IF nearest = "low" THEN IdOrd(x) <= IdOrd(y)
                          ELSE IdOrd(x) >= IdOrd(y)
         IN  <<first>> \o Ranked(ids \ {first}, nearest)

\* code_collection.query(query_texts, n_results): the metadata of the
\* nearest records, at most n_results of them.
collection_query(coll, query, n_results) ==
    LET ranked == Ranked(DOMAIN coll, query.nearest)
    IN  [i \in 1..Min(n_results, Len(ranked)) |-> coll[ranked[i]].metadata]

\* What lines start..end of a file hold: the node or cut with these lines,
\* or text that is no definition at all.
NoNode(start, end) == [N0 EXCEPT !.kind = "none", !.lineno = start,
                                 !.end_lineno = end]
LinesAt(file, start, end) ==
    LET here == {n \in Range(file.nodes) \cup file.cuts :
                    n.lineno = start /\ n.end_lineno = end}
    IN  IF file.ok /\ here # {} THEN CHOOSE n \in here : TRUE
        ELSE NoNode(start, end)

\* The CodeEntity find_relevant_code rebuilds from a record's metadata and
\* the lines of the file as it is now (lines 591-608): no docstring, no
\* dependencies, and none of the analysis fields.
RebuiltEntity(metadata, file) ==
    [name |-> metadata.name,
     type |-> metadata.type,
     file_path |-> metadata.file_path,
     start_line |-> metadata.start_line,
     end_line |-> metadata.end_line,
     docstring |-> FALSE,
     dependencies |-> {},
     code_snippet |-> Snippet("lines",
                         LinesAt(file, metadata.start_line, metadata.end_line)),
     complexity |-> NoneNum,
     security_issues |-> NoneList,
     performance_score |-> NoneNum]

\* find_relevant_code turning a failure of the query into no entities.
find_relevant_code_or_none(coll, tree, query, query_fails) ==
    LET metadatas == IF query_fails THEN <<>>
                     ELSE collection_query(coll, query, Limit)
    IN  [raised |-> \E i \in DOMAIN metadatas : ~tree[metadatas[i].file_path].exists,
         entities |-> [i \in DOMAIN metadatas |->
                          RebuiltEntity(metadatas[i], tree[metadatas[i].file_path])]]

\* find_relevant_code: no try block, so an exception of
\* code_collection.query (query_fails) leaves the function, as one of open()
\* does for a file that is gone.
find_relevant_code(coll, tree, query, query_fails) ==
    LET metadatas == IF query_fails THEN <<>>
                     ELSE collection_query(coll, query, Limit)
    IN  [raised |-> \/ query_fails
                    \/ \E i \in DOMAIN metadatas :
                           ~tree[metadatas[i].file_path].exists,
         entities |-> [i \in DOMAIN metadatas |->
                          RebuiltEntity(metadatas[i], tree[metadatas[i].file_path])]]

\* _calculate_confidence without the floor of 0.1.
_calculate_confidence_no_floor(entity, impact_score, risk_score) ==
    LET c1 == 500 + (IF entity.docstring THEN 200 ELSE 0)
        c2 == c1 - Min(300, impact_score \div 20)
        c3 == c2 - (risk_score * 3) \div 10
        c4 == c3 + (IF Truthy(entity.complexity)
                    THEN Max(0, 200 - (entity.complexity.num * 20)
                                          \div entity.complexity.den)
                    ELSE 0)
    IN  Min(1000, c4)

\* 0.5, +0.2 with a docstring, -min(0.3, impact * 0.05), -risk * 0.3,
\* +max(0, 0.2 - complexity * 0.02) `if entity.complexity`, into [0.1, 1.0].
_calculate_confidence(entity, impact_score, risk_score) ==
    LET c1 == 500 + (IF entity.docstring THEN 200 ELSE 0)
        c2 == c1 - Min(300, impact_score \div 20)
        c3 == c2 - (risk_score * 3) \div 10
        c4 == c3 + (IF Truthy(entity.complexity)
                    THEN Max(0, 200 - (entity.complexity.num * 20)
                                          \div entity.complexity.den)
                    ELSE 0)
    IN  Max(100, Min(1000, c4))

\* The checks with the complexity items from a complexity of 10 on.
_generate_safety_checks_from_ten(entity, deps, code_smells, security_issues) ==
    <<"Create backup of affected files", "Create new feature branch">>
    \o (IF deps.incoming # {}
        THEN <<"Test all dependent modules", "Verify interface compatibility">>
        ELSE <<>>)
    \o (IF TruthyList(security_issues)
        THEN [k \in DOMAIN security_issues.val |->
                 <<"Address security issue", security_issues.val[k]>>]
        ELSE <<>>)
    \o [k \in DOMAIN code_smells |-> <<"Consider refactoring", code_smells[k]>>]
    \o (IF Truthy(entity.complexity)
           /\ entity.complexity.num >= 10 * entity.complexity.den
        THEN <<"Consider breaking down complex logic",
               "Add detailed inline documentation">>
        ELSE <<>>)
    \o <<"Add/update unit tests", "Add/update integration tests",
         "Verify error handling", "Check edge cases">>

_generate_safety_checks(entity, deps, code_smells, security_issues) ==
    <<"Create backup of affected files", "Create new feature branch">>
    \o (IF deps.incoming # {}
        THEN <<"Test all dependent modules", "Verify interface compatibility">>
        ELSE <<>>)
    \o (IF TruthyList(security_issues)
        THEN [k \in DOMAIN security_issues.val |->
                 <<"Address security issue", security_issues.val[k]>>]
        ELSE <<>>)
    \o [k \in DOMAIN code_smells |-> <<"Consider refactoring", code_smells[k]>>]
    \o (IF Truthy(entity.complexity)
           /\ entity.complexity.num > 10 * entity.complexity.den
        THEN <<"Consider breaking down complex logic",
               "Add detailed inline documentation">>
        ELSE <<>>)
    \o <<"Add/update unit tests", "Add/update integration tests",
         "Verify error handling", "Check edge cases">>

_suggest_modification_type(task_description, entity) ==
    IF "bug" \in task_description.words THEN "fix"
    ELSE IF "feature" \in task_description.words THEN "add"
    ELSE IF "refactor" \in task_description.words THEN "modify"
    ELSE "analyze"

\* The comprehensive risk score (lines 654-659).
RiskScore(dep_risk, security_issues, code_smells) ==
    Min(1000, dep_risk + (IF TruthyList(security_issues) THEN 300 ELSE 0)
              + Len(code_smells) * 100)

\* len(incoming) + len(outgoing) + (complexity or 0) / 10  (lines 662-666).
ImpactScore(deps, complexity) ==
    1000 * (Cardinality(deps.incoming) + Cardinality(deps.outgoing))
    + (IF Truthy(complexity) THEN (complexity.num * 100) \div complexity.den
       ELSE 0)

\* The dictionary appended for one entity (lines 654-691).
Suggestion(task_description, entity, deps, dep_risks, code_smells) ==
    LET risk_score == RiskScore(dep_risks.risk_score, entity.security_issues,
                                code_smells)
        impact_score == ImpactScore(deps, entity.complexity)
    IN  [entity |-> entity,
         dependencies |-> deps,
         impact_score |-> impact_score,
         risk_score |-> risk_score,
         security_issues |-> entity.security_issues,
         code_smells |-> code_smells,
         dependency_risks |-> dep_risks,
         confidence |-> _calculate_confidence(entity, impact_score, risk_score),
         modification_type |-> _suggest_modification_type(task_description, entity),
         safety_checks |-> _generate_safety_checks(entity, deps, code_smells,
                                                   entity.security_issues)]

\* The sort key with risk_score not negated.
KeyGreaterRiskUp(x, y) ==
    \/ x.confidence > y.confidence
    \/ x.confidence = y.confidence /\ x.risk_score > y.risk_score

\* The sort key (confidence, -risk_score), compared as Python compares tuples.
KeyGreater(x, y) ==
    \/ x.confidence > y.confidence
    \/ x.confidence = y.confidence /\ (0 - x.risk_score) > (0 - y.risk_score)

\* list.sort(key, reverse = True): descending and stable.
RECURSIVE Insert(_, _)
Insert(sorted, x) ==
    IF sorted = <<>> THEN <<x>>
    ELSE IF KeyGreater(x, Head(sorted)) THEN <<x>> \o sorted
    ELSE <<Head(sorted)>> \o Insert(Tail(sorted), x)

RECURSIVE SortSuggestions(_)
SortSuggestions(list) ==
    IF list = <<>> THEN <<>>
    ELSE Insert(SortSuggestions(SubSeq(list, 1, Len(list) - 1)), list[Len(list)])

\* ast.parse(entity.code_snippet) and next(FunctionDef or ClassDef): the
\* node found, kind "none" when the text does not parse (an indented
\* definition, text that is no definition) or holds no definition.
ParsedSnippet(entity, file) ==
    LET node == LinesAt(file, entity.start_line, entity.end_line)
    IN  IF node.kind # "none" /\ node.col = 0 THEN node
        ELSE NoNode(entity.start_line, entity.end_line)

\* A get_dependencies that records a name it does not know as a node.
get_dependencies_adding(G, entity_name) ==
    [nodes |-> G.nodes \cup {entity_name}, edges |-> G.edges]

\* The graph get_dependencies leaves: the membership test, predecessors
\* and successors (lines 621-627) read self.dependency_graph.
GraphAfterGetDependencies(G, entity_name) == G

\* The graph analyze_dependencies_risk leaves: its own get_dependencies
\* call (line 179); simple_cycles and all_simple_paths read the graph.
GraphAfterRisk(G, entity_name) == GraphAfterGetDependencies(G, entity_name)

\* The records code_collection.query leaves in the collection (lines
\* 585-588): a query reads the index.
CollectionAfterQuery(coll) == coll

\* The graph the loop of suggest_modification_points leaves (lines
\* 643-650): get_dependencies, then analyze_dependencies_risk for each
\* entity in turn, up to the one a step raises on.
RECURSIVE GraphAfterQueries(_, _, _, _)
GraphAfterQueries(G, relevant, tree, legacy) ==
    IF relevant = <<>> THEN G
    ELSE LET entity == Head(relevant)
             after == GraphAfterRisk(GraphAfterGetDependencies(G, entity.name),
                                     entity.name)
         IN  IF \/ analyze_dependencies_risk(G, entity.name, legacy).raised
                \/ ParsedSnippet(entity, tree[entity.file_path]).kind = "none"
             THEN after
             ELSE GraphAfterQueries(after, Tail(relevant), tree, legacy)

\* suggest_modification_points: any exception of a step leaves the call;
\* nothing is returned then.  graph and coll are the dependency graph and
\* the collection as the call leaves them.
suggest_modification_points(G, coll, tree, task_description, legacy, query_fails) ==
    LET found == find_relevant_code(coll, tree, task_description, query_fails)
        relevant == found.entities
        risks == [i \in DOMAIN relevant |->
                     analyze_dependencies_risk(G, relevant[i].name, legacy)]
        nodes == [i \in DOMAIN relevant |->
                     ParsedSnippet(relevant[i], tree[relevant[i].file_path])]
        raised == \/ found.raised
                  \/ \E i \in DOMAIN relevant :
                         risks[i].raised \/ nodes[i].kind = "none"
        suggestions ==
            [i \in DOMAIN relevant |->
                Suggestion(task_description, relevant[i],
                           get_dependencies(G, relevant[i].name), risks[i],
                           analyze_code_smells(relevant[i], nodes[i]))]
        graph == IF found.raised THEN G
                 ELSE GraphAfterQueries(G, relevant, tree, legacy)
        left == CollectionAfterQuery(coll)
    IN  IF raised
        THEN [raised |-> TRUE, suggestions |-> <<>>,
              graph |-> graph, coll |-> left]
        ELSE [raised |-> FALSE, suggestions |-> SortSuggestions(suggestions),
              graph |-> graph, coll |-> left]

\* ------------------------------------------------------------------- state
VARIABLES
    fs,                \* the source tree: path -> file
    edits,             \* edits of the source tree so far
    runs,              \* index_codebase runs completed so far
    pc,                \* "idle", or "indexing" inside index_codebase
    walk,              \* the files os.walk has yet to yield in this run
    dependency_graph,  \* self.dependency_graph
    code_collection,   \* self.code_collection: id -> [document, metadata]
    run_fs,            \* the source tree the latest run read
    extracted,         \* path -> the entities list of _index_file, latest run
    submitted,         \* the records handed to code_collection.add, latest run
    run_log,           \* the error records logged by the latest run
    index_ret,         \* what the latest index_codebase call returned
    prev,              \* the run before the latest: its tree, ids and entities
    suggest_out,       \* what the latest suggest_modification_points returned
    score_in,          \* the scoring of one candidate alone: its inputs
    score_out,         \* the scoring of one candidate alone: the suggestion
    cx,                \* analyze_complexity alone: a syntax tree, its result
    add_call,          \* _add_to_vector_db alone: its inputs and its effect
    mgr,               \* a ManagerAgent and the latest call made on it
    agent_run,         \* one SpecializedAgent.execute_task_async call
    risk,              \* _calculate_dependency_risk_score alone
    type_run,          \* the extraction of one class and its methods
    perf,              \* the estimators of analyze_performance on one node
    walk_run           \* the directory walk of one index_codebase run

indexVars == <<fs, edits, runs, pc, walk, dependency_graph, code_collection,
               run_fs, extracted, submitted, run_log, index_ret, prev,
               suggest_out>>
scoreVars == <<score_in, score_out>>
unitVars == <<cx, add_call, mgr, agent_run, risk, type_run, perf, walk_run>>
vars == <<indexVars, scoreVars, unitVars>>

NoEntities == [p \in Paths |-> <<>>]
\* Python's None as a return value, and "no call has returned yet".
NoneValue == [returned |-> TRUE, value |-> "None"]
NotReturned == [returned |-> FALSE, value |-> "None"]
NoSuggestions == [called |-> FALSE, raised |-> FALSE, suggestions |-> <<>>,
                  query_failed |-> FALSE, index_pc |-> "idle",
                  graph |-> EmptyGraph]
NoScoreInput == [given |-> FALSE]
NoScore == [called |-> FALSE]
NoAddCall == [given |-> FALSE]
NoCx == [nodes |-> <<>>, complexity |-> 0, before |-> 0, added |-> "none"]
NoMgr == [built |-> FALSE]
NoAgentRun == [given |-> FALSE]
NoRisk == [called |-> FALSE]
NoTypeRun == [given |-> FALSE]
NoPerf == [given |-> FALSE]
NoWalkRun == [given |-> FALSE]

\* The calls the model follows one at a time are not in progress, but for
\* those named in skip.
Idle(skip) ==
    /\ IF "score" \in skip THEN TRUE
       ELSE score_in = NoScoreInput /\ score_out = NoScore
    /\ IF "cx" \in skip THEN TRUE ELSE cx = NoCx
    /\ IF "add" \in skip THEN TRUE ELSE add_call = NoAddCall
    /\ IF "mgr" \in skip THEN TRUE ELSE mgr = NoMgr
    /\ IF "agent" \in skip THEN TRUE ELSE agent_run = NoAgentRun
    /\ IF "risk" \in skip THEN TRUE ELSE risk = NoRisk
    /\ IF "type" \in skip THEN TRUE ELSE type_run = NoTypeRun
    /\ IF "perf" \in skip THEN TRUE ELSE perf = NoPerf
    /\ IF "walk" \in skip THEN TRUE ELSE walk_run = NoWalkRun
NoRun == [fs |-> [p \in Paths |-> Absent], ids |-> {}, extracted |-> NoEntities,
          valid |-> FALSE]

\* CodeIndexer.__init__: an empty DiGraph and the collection of the store.
InitIndexer(trees) ==
    /\ fs \in trees
    /\ edits = 0
    /\ runs = 0
    /\ pc = "idle"
    /\ walk = <<>>
    /\ dependency_graph = EmptyGraph
    /\ code_collection = EmptyCollection
    /\ run_fs = [p \in Paths |-> Absent]
    /\ extracted = NoEntities
    /\ submitted = {}
    /\ run_log = <<>>
    /\ index_ret = NotReturned
    /\ prev = NoRun
    /\ suggest_out = NoSuggestions

Init ==
    /\ InitIndexer(FileSystems)
    /\ Idle({})

\* os.walk over the workspace: the .py files that exist, in listing order.
RECURSIVE Walk(_, _)
Walk(tree, paths) ==
    IF paths = <<>> THEN <<>>
    ELSE IF tree[Head(paths)].exists
         THEN <<Head(paths)>> \o Walk(tree, Tail(paths))
         ELSE Walk(tree, Tail(paths))

\* index_codebase is entered (lines 817-840).
StartIndex ==
    /\ pc = "idle"
    /\ runs < MaxRuns
    /\ pc' = "indexing"
    /\ walk' = Walk(fs, PathSeq)
    /\ prev' = [fs |-> run_fs, ids |-> {r.id : r \in submitted},
                extracted |-> extracted, valid |-> runs > 0]
    /\ run_fs' = fs
    /\ extracted' = NoEntities
    /\ submitted' = {}
    /\ run_log' = <<>>
    /\ index_ret' = NotReturned
    /\ suggest_out' = NoSuggestions
    /\ UNCHANGED <<fs, edits, runs, dependency_graph, code_collection>>
    /\ UNCHANGED <<scoreVars, unitVars>>

\* The loop of index_codebase leaving the walk after a file.
RestOfWalkLeaves(files, raised) == <<>>

\* What the loop of index_codebase does with the rest of the walk after a
\* file: `continue` on an error of _index_file as after a success.
RestOfWalk(files, raised) == Tail(files)

\* One turn of the loop of index_codebase (lines 844-855): _index_file on
\* the next file, and the handler around it.  Of the store's failures the
\* runs follow the refusal of an id it holds; SpecAdd follows the others.
IndexFile ==
    /\ pc = "indexing"
    /\ walk # <<>>
    /\ \E dup_raises \in BOOLEAN :
        LET path == Head(walk)
            r == _index_file(dependency_graph, code_collection, path,
                             fs[path], Store(dup_raises, FALSE, {}))
        IN  /\ dependency_graph' = r.graph
            /\ code_collection' = r.coll
            /\ extracted' = [extracted EXCEPT ![path] = r.entities]
            /\ submitted' = submitted \cup r.submitted
            /\ run_log' = run_log \o r.log \o
                   (IF r.raised THEN <<LogEntry("Error indexing file", path)>>
                    ELSE <<>>)
            /\ walk' = RestOfWalk(walk, r.raised)
    /\ UNCHANGED <<fs, edits, runs, pc, run_fs, index_ret, prev, suggest_out>>
    /\ UNCHANGED <<scoreVars, unitVars>>

\* The value index_codebase hands back: the function has no return statement.
IndexReturn(log) == NoneValue

\* index_codebase returns (line 857 and the end of the function).
FinishIndex ==
    /\ pc = "indexing"
    /\ walk = <<>>
    /\ pc' = "idle"
    /\ runs' = runs + 1
    /\ index_ret' = IndexReturn(run_log)
    /\ UNCHANGED <<fs, edits, walk, dependency_graph, code_collection, run_fs,
                   extracted, submitted, run_log, prev, suggest_out>>
    /\ UNCHANGED <<scoreVars, unitVars>>

\* The environment changes, creates or removes one file between runs.
EditFile ==
    /\ pc = "idle"
    /\ edits < MaxEdits
    /\ \E p \in Paths : \E t \in (Texts(p) \cup {Absent}) \ {fs[p]} :
           fs' = [fs EXCEPT ![p] = t]
    /\ edits' = edits + 1
    /\ suggest_out' = NoSuggestions
    /\ UNCHANGED <<runs, pc, walk, dependency_graph, code_collection, run_fs,
                   extracted, submitted, run_log, index_ret, prev>>
    /\ UNCHANGED <<scoreVars, unitVars>>

\* The coroutines index_codebase awaits, itself (line 848) or inside
\* _index_file (lines 444-475).
IndexAwaits == {"_index_file", "analyze_complexity", "analyze_security",
                "analyze_performance"}

\* An await of every coroutine handing control to the event loop.
YieldsToLoopAlways(callee) == TRUE

\* Whether awaiting the coroutine hands control to the event loop.  Each of
\* them is a coroutine function of CodeIndexer whose body awaits, if
\* anything, another of them: none awaits a future, a sleep or asynchronous
\* I/O (files are read with open(), the store is called synchronously), so
\* the await runs the callee to its end without suspending the caller.
YieldsToLoop(callee) == FALSE

\* The event loop can run another coroutine: no index_codebase call is in
\* progress, or the one in progress is suspended at an await.
LoopFree == pc = "idle" \/ \E callee \in IndexAwaits : YieldsToLoop(callee)

\* A caller awaits suggest_modification_points(task_description) on the
\* event loop of the indexer; its own awaits (lines 639-649) are of
\* coroutines that do not suspend either.  The call changes nothing of the
\* indexer, so a later call before the next run or edit returns what a
\* first call with its arguments returns: one is modelled.
Suggest ==
    /\ LoopFree
    /\ ~suggest_out.called
    /\ \E task_description \in Queries : \E legacy, query_fails \in BOOLEAN :
        \E r \in {suggest_modification_points(dependency_graph, code_collection,
                                               fs, task_description, legacy,
                                               query_fails)} :
            /\ suggest_out' = [called |-> TRUE, raised |-> r.raised,
                                suggestions |-> r.suggestions,
                                query_failed |-> query_fails, index_pc |-> pc,
                                graph |-> dependency_graph]
            /\ dependency_graph' = r.graph
            /\ code_collection' = r.coll
    /\ UNCHANGED <<fs, edits, runs, pc, walk, run_fs, extracted, submitted,
                   run_log, index_ret, prev>>
    /\ UNCHANGED <<scoreVars, unitVars>>

Next == StartIndex \/ IndexFile \/ FinishIndex \/ EditFile \/ Suggest

Spec == Init /\ [][Next]_vars

\* ------------------------------------------- the scoring of one candidate
\* The inputs of lines 654-691 for one entity, each drawn from a small set:
\* summary presence, complexity (None, 0, whole numbers, a quotient),
\* security findings (None, none, one, two), the code smells found, the
\* numbers of incoming and outgoing dependencies, the dependency risk.
AllSmells == <<"Method is too long", "Too many parameters",
               "Contains complex condition", "Contains nested loops">>
Complexities == {NoneNum, Num(0), Num(1), Num(5), Num(10), Num(12),
                 [num |-> 3, den |-> 2]}
Findings == {NoneList, SomeList(<<>>), SomeList(<<"shell_injection">>),
             SomeList(<<"shell_injection", "weak_crypto">>)}
ScoreInputs ==
    [given : {TRUE}, docstring : BOOLEAN, complexity : Complexities,
     security_issues : Findings,
     code_smells : {SubSeq(AllSmells, 1, k) : k \in 0..4},
     incoming : {0, 1, 3}, outgoing : {0, 1, 5},
     dep_risk : {0, 30, 240, 500, 690, 1000}]

ScoreEntity(in) ==
    [name |-> "foo", type |-> "function", file_path |-> "a.py",
     start_line |-> 1, end_line |-> 2, docstring |-> in.docstring,
     dependencies |-> {}, code_snippet |-> Snippet("lines", N0),
     complexity |-> in.complexity, security_issues |-> in.security_issues,
     performance_score |-> NoneNum]

InitScore ==
    /\ InitIndexer({[p \in Paths |-> Absent]})
    /\ Idle({"score"})
    /\ score_in \in ScoreInputs
    /\ score_out = NoScore

\* The body of the loop of suggest_modification_points on the given inputs.
Score ==
    /\ ~score_out.called
    /\ LET deps == [incoming |-> 1..score_in.incoming,
                    outgoing |-> 1..score_in.outgoing]
           dep_risks == [raised |-> FALSE, circular_dependencies |-> FALSE,
                         dependency_depth |-> 0,
                         direct_dependencies |-> score_in.outgoing,
                         dependent_modules |-> score_in.incoming,
                         risk_score |-> score_in.dep_risk]
       IN  score_out' = [called |-> TRUE,
                         suggestion |->
                             Suggestion([words |-> {}, nearest |-> "low"],
                                        ScoreEntity(score_in), deps, dep_risks,
                                        score_in.code_smells)]
    /\ UNCHANGED <<indexVars, score_in, unitVars>>

NextScore == Score

SpecScore == InitScore /\ [][NextScore]_vars

\* ------------------------------------------ analyze_complexity on its own
\* The syntax tree of one function: the nodes below the FunctionDef, each
\* with its class, its count n (operands of a BoolOp, handlers of a Try) and
\* its parent (0: the FunctionDef itself).
MaxNodes == 3
Compound == {"If", "While", "For", "Try", "BoolOp", "IfExp"}
AstNodes ==
    [kind : {"If", "While", "For", "IfExp", "Pass"}, n : {0}]
    \cup [kind : {"BoolOp"}, n : 2..3]
    \cup [kind : {"Try"}, n : 0..2]

\* ast.iter_child_nodes: the nodes whose parent is node i, in source order.
ChildrenOf(nodes, i) ==
    SelectSeq([j \in DOMAIN nodes |-> j], LAMBDA j : nodes[j].parent = i)

\* ast.walk: the queue of nodes to visit, each followed by its children.
RECURSIVE ast_walk(_, _)
ast_walk(nodes, todo) ==
    IF todo = <<>> THEN <<>>
    ELSE <<nodes[Head(todo)]>>
         \o ast_walk(nodes, Tail(todo) \o ChildrenOf(nodes, Head(todo)))

\* What the loop of analyze_complexity reads of the tree it walks: the If
\* nodes, the While and For nodes, operands - 1 of each BoolOp, the
\* handlers of each Try.
Counts(nodes) ==
    LET seen == ast_walk(nodes, ChildrenOf(nodes, 0))
        count(f(_)) == SumSeq([i \in DOMAIN seen |-> f(seen[i])])
    IN  [N0 EXCEPT
            !.ifs = count(LAMBDA c : IF c.kind = "If" THEN 1 ELSE 0),
            !.loops = count(LAMBDA c : IF c.kind \in {"While", "For"} THEN 1 ELSE 0),
            !.boolops = count(LAMBDA c : IF c.kind = "BoolOp" THEN c.n - 1 ELSE 0),
            !.handlers = count(LAMBDA c : IF c.kind = "Try" THEN c.n ELSE 0)]

CxOf(nodes, before, added) ==
    [nodes |-> nodes, complexity |-> analyze_complexity(Counts(nodes)),
     before |-> before, added |-> added]

InitComplexity ==
    /\ InitIndexer({[p \in Paths |-> Absent]})
    /\ Idle({"cx"})
    /\ cx = CxOf(<<>>, 0, "none")

\* One more node is written into the function, under the FunctionDef or
\* under a compound node of it, and analyze_complexity is called again.
AddNode ==
    /\ Len(cx.nodes) < MaxNodes
    /\ \E c \in AstNodes : \E parent \in 0..Len(cx.nodes) :
          /\ IF parent = 0 THEN TRUE ELSE cx.nodes[parent].kind \in Compound
          /\ cx' = CxOf(Append(cx.nodes, [kind |-> c.kind, n |-> c.n,
                                          parent |-> parent]),
                        cx.complexity, c.kind)
    /\ UNCHANGED <<indexVars, scoreVars, add_call, mgr, agent_run, risk, type_run, perf, walk_run>>

NextComplexity == AddNode

SpecComplexity == InitComplexity /\ [][NextComplexity]_vars

\* ------------------------------------------- _add_to_vector_db on its own
\* The entities of one file, a collection that is empty or holds the records
\* of some version of that file, and a store that fails any of the inserts.
AddInputsOf(p, f) ==
    LET entities == Entities(p, f)
        ids == {Records(entities)[i].id : i \in DOMAIN entities}
    IN  [given : {TRUE}, done : {FALSE}, entities : {entities},
         coll : {EmptyCollection}
                \cup {collection_add(EmptyCollection,
                                     Records(Entities(p, g)), FALSE).coll :
                         g \in {h \in Texts(p) : h.ok}},
         store : {Store(d, b, sf) : d \in BOOLEAN, b \in BOOLEAN,
                                    sf \in SUBSET ids},
         after : {EmptyCollection}, log : {<<>>}]
AddInputs == UNION {UNION {AddInputsOf(p, f) : f \in Texts(p)} : p \in Paths}

InitAdd ==
    /\ InitIndexer({[p \in Paths |-> Absent]})
    /\ Idle({"add"})
    /\ add_call \in AddInputs

\* _add_to_vector_db(entities) runs from its first line to its return.
AddToVectorDb ==
    /\ add_call.given /\ ~add_call.done
    /\ LET r == _add_to_vector_db(add_call.coll, add_call.entities,
                                  add_call.store)
       IN  add_call' = [add_call EXCEPT !.done = TRUE, !.after = r.coll,
                                        !.log = r.log]
    /\ UNCHANGED <<indexVars, scoreVars, cx, mgr, agent_run, risk, type_run, perf, walk_run>>

NextAdd == AddToVectorDb

SpecAdd == InitAdd /\ [][NextAdd]_vars

\* ------------------------------------------------------------ ManagerAgent
\* agents/manager_agent.py.  A task is the dict handed to add_task: whether
\* it has an "id", the id, and its "required_capabilities" (absent reads as
\* the empty list).
MaxCalls == 4

TaskIds == {"t1", "t2"}
RequiredCapabilities == {{}, {"html"}, {"html", "scan"}}
Tasks == [has_id : {TRUE}, id : TaskIds,
          required_capabilities : RequiredCapabilities]
         \cup [has_id : {FALSE}, id : {"none"},
               required_capabilities : RequiredCapabilities]
NoTask == [has_id |-> FALSE, id |-> "none", required_capabilities |-> {}]

\* self.specialized_agents in insertion order: what the manager reads of an
\* agent is its capabilities.  initialize_agents passes SpecializedAgent no
\* workspace_path, which SpecializedAgent.__init__ requires, so the agents
\* of a registry are those its owner constructed and registered under
\* their ids.
Agent(agent_id, capabilities) ==
    [agent_id |-> agent_id, capabilities |-> capabilities]
Registries ==
    {<<>>,
     <<Agent("web_agent", {"html"})>>,
     <<Agent("web_agent", {"html"}), Agent("security_agent", {"scan"})>>,
     <<Agent("security_agent", {"scan"}), Agent("web_agent", {"html"})>>}

\* An entry of self.active_tasks; status "absent" stands for no entry, agent
\* 0, result "none" and error "none" for a key the entry does not have.
TaskInfo(task, agent, status) ==
    [task |-> task, agent |-> agent, status |-> status,
     result |-> "none", error |-> "none"]
NoInfo == TaskInfo(NoTask, 0, "absent")

SetMin(S) == CHOOSE x \in S : \A y \in S : x <= y

\* ManagerAgent.__init__
Manager(agents) ==
    [specialized_agents |-> agents,
     task_queue |-> <<>>,
     active_tasks |-> [i \in TaskIds |-> NoInfo]]

\* What a method call leaves: the manager, the exception it raised ("none"
\* if it returned) and the value it returned.
Return(m, ret) == [m |-> m, raised |-> "none", ret |-> ret]
Raise(m, exc) == [m |-> m, raised |-> exc, ret |-> "none"]

\* The agents of the loop of add_task that pass its all(...) test.
SuitableAgents(m, task) ==
    {i \in DOMAIN m.specialized_agents :
        task.required_capabilities \subseteq m.specialized_agents[i].capabilities}

add_task_always_queue(m, task) ==
    IF ~task.has_id THEN Raise(m, "ValueError")
    ELSE Return([m EXCEPT !.task_queue = Append(@, task),
                            !.active_tasks[task.id] = TaskInfo(task, 0, "queued")],
                  task.id)

add_task(m, task) ==
    IF ~task.has_id THEN Raise(m, "ValueError")
    ELSE LET suitable == SuitableAgents(m, task)
         IN  IF suitable # {}
             THEN Return([m EXCEPT !.active_tasks[task.id] =
                                TaskInfo(task, SetMin(suitable), "assigned")],
                           task.id)
             ELSE Return([m EXCEPT !.task_queue = Append(@, task),
                                     !.active_tasks[task.id] =
                                         TaskInfo(task, 0, "queued")],
                           task.id)

get_task_status(m, task_id) ==
    IF m.active_tasks[task_id].status = "absent" THEN Raise(m, "ValueError")
    ELSE Return(m, m.active_tasks[task_id].status)

\* list.remove(x): the list without its first element equal to x.
RECURSIVE ListRemove(_, _)
ListRemove(list, x) ==
    IF list = <<>> THEN <<>>
    ELSE IF Head(list) = x THEN Tail(list)
    ELSE <<Head(list)>> \o ListRemove(Tail(list), x)

QueuedIds(m) == {m.task_queue[i].id : i \in DOMAIN m.task_queue}

cancel_task_keep_entry(m, task_id) ==
    LET task_info == m.active_tasks[task_id]
    IN  IF task_info.status = "absent" THEN Return(m, "False")
        ELSE IF task_info.status = "queued"
        THEN Return([m EXCEPT !.task_queue =
                           SelectSeq(@, LAMBDA t : t.id # task_id)], "True")
        ELSE IF task_info.status = "assigned"
        THEN Return([m EXCEPT !.active_tasks[task_id].status = "cancelled"],
                      "True")
        ELSE Return(m, "False")

cancel_task(m, task_id) ==
    LET task_info == m.active_tasks[task_id]
    IN  IF task_info.status = "absent"
        THEN IF task_id \in QueuedIds(m)
             THEN LET i == SetMin({j \in DOMAIN m.task_queue :
                                      m.task_queue[j].id = task_id})
                  IN  Return([m EXCEPT !.task_queue =
                                   ListRemove(@, m.task_queue[i])], "True")
             ELSE Return(m, "False")
        ELSE IF task_info.status = "queued"
        THEN Return([m EXCEPT !.task_queue =
                           SelectSeq(@, LAMBDA t : t.id # task_id),
                                !.active_tasks[task_id] = NoInfo], "True")
        ELSE IF task_info.status = "assigned"
        THEN Return([m EXCEPT !.active_tasks[task_id].status = "cancelled"],
                      "True")
        ELSE Return(m, "False")

\* What task_info["agent"].execute_task(task) does: it returns a result with
\* one of the statuses of SpecializedAgent, or it raises (asyncio.run does
\* when an event loop is already running).
AgentOutcomes ==
    [raised : {FALSE}, status : {"completed", "failed", "cancelled"},
     message : {"none"}]
    \cup [raised : {TRUE}, status : {"none"}, message : {"boom"}]
NoOutcome == [raised |-> FALSE, status |-> "none", message |-> "none"]

\* The try block of execute_task, the agent doing outcome.
RunAgent(m, task_id, outcome) ==
    IF outcome.raised
    THEN [m EXCEPT !.active_tasks[task_id].status = "failed",
                   !.active_tasks[task_id].error = outcome.message]
    ELSE [m EXCEPT !.active_tasks[task_id].status = outcome.status,
                   !.active_tasks[task_id].result = outcome.status]

execute_task_unless_queued(m, task_id, outcome) ==
    LET task_info == m.active_tasks[task_id]
    IN  IF task_info.status = "absent" THEN Raise(m, "ValueError")
        ELSE IF task_info.status = "queued" THEN Raise(m, "ValueError")
        ELSE Return(RunAgent(m, task_id, outcome), "None")

execute_task(m, task_id, outcome) ==
    LET task_info == m.active_tasks[task_id]
    IN  IF task_info.status = "absent" THEN Raise(m, "ValueError")
        ELSE IF task_info.status # "assigned" THEN Raise(m, "ValueError")
        ELSE Return(RunAgent(m, task_id, outcome), "None")

\* Whether execute_task reaches the call of the agent.
AgentCalled(m, task_id) == m.active_tasks[task_id].status = "assigned"

\* The latest call on the manager: the method, its arguments, what the agent
\* did if it was called, the manager before the call and the call's end.
Call(op, task, task_id, outcome, pre, r) ==
    [op |-> op, task |-> task, task_id |-> task_id, outcome |-> outcome,
     pre |-> pre, raised |-> r.raised, ret |-> r.ret]
NoCall == Call("none", NoTask, "none", NoOutcome, Manager(<<>>),
               Return(Manager(<<>>), "none"))

InitManager ==
    /\ InitIndexer({[p \in Paths |-> Absent]})
    /\ Idle({"mgr"})
    /\ \E agents \in Registries :
          mgr = [built |-> TRUE, m |-> Manager(agents), calls |-> 0,
                 last |-> NoCall]

AfterCall(op, task, task_id, outcome, r) ==
    mgr' = [mgr EXCEPT !.m = r.m, !.calls = @ + 1,
                       !.last = Call(op, task, task_id, outcome, mgr.m, r)]

AddTask ==
    /\ mgr.built /\ mgr.calls < MaxCalls
    /\ \E task \in Tasks :
          AfterCall("add_task", task, task.id, NoOutcome, add_task(mgr.m, task))
    /\ UNCHANGED <<indexVars, scoreVars, cx, add_call, agent_run, risk, type_run, perf, walk_run>>

GetTaskStatus ==
    /\ mgr.built /\ mgr.calls < MaxCalls
    /\ \E task_id \in TaskIds :
          AfterCall("get_task_status", NoTask, task_id, NoOutcome,
                    get_task_status(mgr.m, task_id))
    /\ UNCHANGED <<indexVars, scoreVars, cx, add_call, agent_run, risk, type_run, perf, walk_run>>

CancelTask ==
    /\ mgr.built /\ mgr.calls < MaxCalls
    /\ \E task_id \in TaskIds :
          AfterCall("cancel_task", NoTask, task_id, NoOutcome,
                    cancel_task(mgr.m, task_id))
    /\ UNCHANGED <<indexVars, scoreVars, cx, add_call, agent_run, risk, type_run, perf, walk_run>>

\* The agent's outcome is recorded only if execute_task gets to call it.
ExecuteTask ==
    /\ mgr.built /\ mgr.calls < MaxCalls
    /\ \E task_id \in TaskIds : \E outcome \in AgentOutcomes :
          AfterCall("execute_task", NoTask, task_id,
                    IF AgentCalled(mgr.m, task_id) THEN outcome ELSE NoOutcome,
                    execute_task(mgr.m, task_id, outcome))
    /\ UNCHANGED <<indexVars, scoreVars, cx, add_call, agent_run, risk, type_run, perf, walk_run>>

NextManager == AddTask \/ GetTaskStatus \/ CancelTask \/ ExecuteTask

SpecManager == InitManager /\ [][NextManager]_vars

\* -------------------------------------- SpecializedAgent.execute_task_async
\* agents/specialized_agent.py.  What execute_task_async reads of a task:
\* whether it has an "id", its "type" and "action" ("missing" for an absent
\* key) and whether it has the "url" or "target" its action fetches.
TaskTypes == {"web_task", "security_task", "invalid_task", "missing"}
TaskActions == {"analyze_page", "vulnerability_scan", "unknown_action",
                "missing"}
AgentTasks == [has_id : BOOLEAN, type : TaskTypes, action : TaskActions,
               has_target : BOOLEAN]

\* _validate_task: the message of the ValueError it raises, "ok" if none.
_validate_task(task) ==
    IF ~task.has_id THEN "Missing required field: id"
    ELSE IF task.type = "missing" THEN "Missing required field: type"
    ELSE IF task.action = "missing" THEN "Missing required field: action"
    ELSE IF /\ task.type = "web_task" /\ task.action = "analyze_page"
            /\ ~task.has_target
    THEN "Missing required field: url"
    ELSE IF /\ task.type = "security_task"
            /\ task.action = "vulnerability_scan"
            /\ ~task.has_target
    THEN "Missing required field: target"
    ELSE "ok"

\* _check_cancellation: cancel_event is None ("None"), clear or set.
_check_cancellation(cancel_event) == cancel_event = "set"

\* _notify_ci_cd: the notification is "sent" if the try block finds the
\* task's type, id and action; otherwise its except clause logs task["id"]
\* and returns a "failed" notification, and a task without an id makes
\* that clause itself raise KeyError.
_notify_ci_cd(task) ==
    IF task.has_id /\ task.type # "missing" /\ task.action # "missing"
    THEN "sent"
    ELSE IF task.has_id THEN "failed"
    ELSE "KeyError"

\* The call is over: the finally clause has reset current_task,
\* progress_callback and cancel_event.
EndOfCall(run, pc_, status, error, notification) ==
    [run EXCEPT !.pc = pc_, !.status = status, !.error = error,
                !.ci_cd_notification = notification, !.attrs = "None"]

\* The except clause of execute_task_async: a 'failed' result with the
\* notification of _notify_ci_cd, which the clause calls unprotected.
OnException(run, error) ==
    LET n == _notify_ci_cd(run.task)
    IN  IF n = "KeyError"
        THEN EndOfCall(run, "raised", "none", "KeyError", "none")
        ELSE EndOfCall(run, "returned", "failed", error, n)

\* result["ci_cd_notification"] = await self._notify_ci_cd(task, result);
\* return result, inside the try block.
NotifyAndReturn(run, status, error) ==
    LET n == _notify_ci_cd(run.task)
    IN  IF n = "KeyError" THEN OnException(run, "KeyError")
        ELSE EndOfCall(run, "returned", status, error, n)

\* The action the executor of a task type knows.
ActionOf(type) ==
    IF type = "web_task" THEN "analyze_page" ELSE "vulnerability_scan"

AgentRuns ==
    [given : {TRUE}, task : AgentTasks,
     cancel_event : {"None", "clear", "set"},
     fetch_fails : BOOLEAN,
     pc : {"called"}, attrs : {"None"}, inner : {"none"},
     status : {"none"}, error : {"none"}, ci_cd_notification : {"none"}]

InitAgent ==
    /\ InitIndexer({[p \in Paths |-> Absent]})
    /\ Idle({"agent"})
    /\ agent_run \in AgentRuns

\* Lines 199-234 and the executor up to its first await: the progress
\* report reads task["id"], the task is validated, cancellation is checked
\* and the task is dispatched on its type.
Begin ==
    /\ agent_run.given /\ agent_run.pc = "called"
    /\ LET run == [agent_run EXCEPT !.attrs = "set"]
           task == run.task
       IN  agent_run' =
             IF ~task.has_id THEN OnException(run, "KeyError")
             ELSE IF _validate_task(task) # "ok"
             THEN OnException(run, _validate_task(task))
             ELSE IF _check_cancellation(run.cancel_event)
             THEN NotifyAndReturn(run, "cancelled", "none")
             ELSE IF task.type \notin {"web_task", "security_task"}
             THEN NotifyAndReturn(run, "failed", "Invalid task type")
             ELSE IF task.action # ActionOf(task.type)
             THEN OnException(run, "Unknown task action")
             ELSE [run EXCEPT !.pc = "executing"]
    /\ UNCHANGED <<indexVars, scoreVars, cx, add_call, mgr, risk, type_run, perf, walk_run>>

\* Another coroutine sets the cancel event while the executor awaits: the
\* fetch or the scan, or the analyses of a page after the executor's check.
SetCancel ==
    /\ agent_run.given /\ agent_run.pc \in {"executing", "analysing"}
    /\ agent_run.cancel_event = "clear"
    /\ agent_run' = [agent_run EXCEPT !.cancel_event = "set"]
    /\ UNCHANGED <<indexVars, scoreVars, cx, add_call, mgr, risk, type_run, perf, walk_run>>

\* The fetch or the scan ends, by an exception the executor turns into a
\* ValueError or with its data, and the executor checks for cancellation;
\* the analyses of a page are awaited after the check.
Execute ==
    /\ agent_run.given /\ agent_run.pc = "executing"
    /\ agent_run' =
         IF agent_run.fetch_fails
         THEN OnException(agent_run, "Failed to execute")
         ELSE IF _check_cancellation(agent_run.cancel_event)
         THEN [agent_run EXCEPT !.pc = "executed", !.inner = "cancelled"]
         ELSE IF agent_run.task.type = "web_task"
         THEN [agent_run EXCEPT !.pc = "analysing"]
         ELSE [agent_run EXCEPT !.pc = "executed", !.inner = "completed"]
    /\ UNCHANGED <<indexVars, scoreVars, cx, add_call, mgr, risk, type_run, perf, walk_run>>

Analyse ==
    /\ agent_run.given /\ agent_run.pc = "analysing"
    /\ agent_run' = [agent_run EXCEPT !.pc = "executed", !.inner = "completed"]
    /\ UNCHANGED <<indexVars, scoreVars, cx, add_call, mgr, risk, type_run, perf, walk_run>>

\* Lines 236-254: the second cancellation check, the validation mark, the
\* notification and the return of the executor's result.
Finish ==
    /\ agent_run.given /\ agent_run.pc = "executed"
    /\ agent_run' =
         IF _check_cancellation(agent_run.cancel_event)
         THEN NotifyAndReturn(agent_run, "cancelled", "none")
         ELSE NotifyAndReturn(agent_run, agent_run.inner, "none")
    /\ UNCHANGED <<indexVars, scoreVars, cx, add_call, mgr, risk, type_run, perf, walk_run>>

NextAgent == Begin \/ SetCancel \/ Execute \/ Analyse \/ Finish

SpecAgent == InitAgent /\ [][NextAgent]_vars

\* ----------------------------- _calculate_dependency_risk_score on its own
\* The depths and the counts of outgoing and incoming edges the score is
\* called with: past the values at which each of its terms is capped.
MaxDepth == 5
MaxFan == 6

InitRisk ==
    /\ InitIndexer({[p \in Paths |-> Absent]})
    /\ Idle({"risk"})
    /\ risk = NoRisk

CalculateRisk ==
    /\ \E has_circular \in BOOLEAN : \E depth \in 0..MaxDepth :
       \E direct_deps \in 0..MaxFan : \E dependents \in 0..MaxFan :
          risk' = [called |-> TRUE, has_circular |-> has_circular,
                   depth |-> depth, direct_deps |-> direct_deps,
                   dependents |-> dependents,
                   score |-> _calculate_dependency_risk_score(
                                 has_circular, depth, direct_deps, dependents)]
    /\ UNCHANGED <<indexVars, scoreVars, cx, add_call, mgr, agent_run, type_run, perf, walk_run>>

NextRisk == CalculateRisk

SpecRisk == InitRisk /\ [][NextRisk]_vars

\* ----------------------------------------- a class entity and its methods
\* A class whose body holds the given FunctionDef nodes, each two lines
\* long and indented; methods lists every FunctionDef ast.walk finds in the
\* class.
MaxMethods == 3

MethodShapes ==
    {[N0 EXCEPT !.name = "m", !.col = 4],
     [N0 EXCEPT !.name = "m", !.col = 4, !.ifs = 1],
     [N0 EXCEPT !.name = "m", !.col = 4, !.ifs = 2, !.loops = 1],
     [N0 EXCEPT !.name = "m", !.col = 4, !.boolops = 2, !.handlers = 2],
     [N0 EXCEPT !.name = "m", !.col = 4, !.loops = 4, !.ifs = 3]}

TypeFile(methods) ==
    LET n == Len(methods)
        class == [N0 EXCEPT !.name = "B", !.kind = "ClassDef",
                            !.end_lineno = 2 * n + 2,
                            !.methods = [j \in 1..n |-> j + 1]]
    IN  [exists |-> TRUE, ok |-> TRUE,
         nodes |-> <<class>> \o
                   [j \in 1..n |-> [methods[j] EXCEPT !.lineno = 2 * j,
                                                      !.end_lineno = 2 * j + 1]],
         cuts |-> {}]

\* The entities _index_file extracts from the file of the class.
TypeRun(methods) ==
    [given |-> TRUE, methods |-> methods,
     entities |-> Entities("b.py", TypeFile(methods))]

InitType ==
    /\ InitIndexer({[p \in Paths |-> Absent]})
    /\ Idle({"type"})
    /\ type_run = TypeRun(<<>>)

\* One more method is written into the class and the file is indexed again.
AddMethod ==
    /\ type_run.given /\ Len(type_run.methods) < MaxMethods
    /\ \E m \in MethodShapes : type_run' = TypeRun(Append(type_run.methods, m))
    /\ UNCHANGED <<indexVars, scoreVars, cx, add_call, mgr, agent_run, risk, perf, walk_run>>

NextType == AddMethod

SpecType == InitType /\ [][NextType]_vars

\* ---------------------------------- the estimators of analyze_performance
\* One function whose body grows by a loop, by a literal (the List and Dict
\* nodes are what array_allocations counts, so both add to lists; a Set
\* node adds to sets) or by a call of the function itself; the text
\* matches no performance rule.
MaxLoops == 5
Literals == {"List", "Dict", "Set"}

PerfOf(node, literals, before, added) ==
    LET file == [exists |-> TRUE, ok |-> TRUE, nodes |-> <<node>>, cuts |-> {}]
        metrics == analyze_performance(ExtractEntity("a.py", file, 1), node)
    IN  [given |-> TRUE, node |-> node, literals |-> literals,
         before |-> before, added |-> added,
         time_complexity |-> metrics.time_complexity,
         space_complexity |-> metrics.space_complexity,
         performance_score |-> metrics.performance_score]

NoMetrics == [time_complexity |-> Class("O(1)", 0),
              space_complexity |-> Class("O(1)", 0),
              performance_score |-> 1000]
MetricsOf(p) == [time_complexity |-> p.time_complexity,
                 space_complexity |-> p.space_complexity,
                 performance_score |-> p.performance_score]

InitPerf ==
    /\ InitIndexer({[p \in Paths |-> Absent]})
    /\ Idle({"perf"})
    /\ perf = PerfOf(N0, {}, NoMetrics, "none")

AddLoop ==
    /\ perf.given /\ perf.node.loops < MaxLoops
    /\ perf' = PerfOf([perf.node EXCEPT !.loops = @ + 1], perf.literals,
                      MetricsOf(perf), "loop")
    /\ UNCHANGED <<indexVars, scoreVars, cx, add_call, mgr, agent_run, risk, type_run, walk_run>>

AddLiteral ==
    /\ perf.given
    /\ \E kind \in Literals \ perf.literals :
          perf' = PerfOf(IF kind = "Set"
                         THEN [perf.node EXCEPT !.sets = @ + 1]
                         ELSE [perf.node EXCEPT !.lists = @ + 1],
                         perf.literals \cup {kind}, MetricsOf(perf), kind)
    /\ UNCHANGED <<indexVars, scoreVars, cx, add_call, mgr, agent_run, risk, type_run, walk_run>>

AddSelfCall ==
    /\ perf.given /\ ~perf.node.selfcalls
    /\ perf' = PerfOf([perf.node EXCEPT !.selfcalls = TRUE], perf.literals,
                      MetricsOf(perf), "selfcall")
    /\ UNCHANGED <<indexVars, scoreVars, cx, add_call, mgr, agent_run, risk, type_run, walk_run>>

NextPerf == AddLoop \/ AddLiteral \/ AddSelfCall

SpecPerf == InitPerf /\ [][NextPerf]_vars

\* ------------------------------------------- the walk of index_codebase
\* The workspace as os.walk sees it: the directories below the workspace
\* root, each a path of names, and the files every directory lists.  A file
\* name is its stem and its extension; name.endswith('.py') reads the
\* extension.
MaxTreeDepth == 2

ignore_patterns ==
    {"node_modules", "venv", "env", "__pycache__", ".git", ".pytest_cache",
     "dist", "build", ".vscode", ".idea"}

DirOrder == <<"pkg", "venv">>
DirNames == Range(DirOrder)
AllDirs == UNION {[1..k -> DirNames] : k \in 0..MaxTreeDepth}
Trees ==
    {t \in SUBSET AllDirs :
        /\ <<>> \in t
        /\ \A d \in t : d # <<>> => SubSeq(d, 1, Len(d) - 1) \in t}

FileOrder == <<[stem |-> "m", ext |-> "py"], [stem |-> "m", ext |-> "pyc"],
               [stem |-> "r", ext |-> "txt"]>>
EndsWithPy(file) == file.ext = "py"

\* The dirs list and the files list os.walk yields for a directory.
SubDirs(tree, root) ==
    SelectSeq(DirOrder, LAMBDA n : Append(root, n) \in tree)
FilesOf(files) == SelectSeq(FileOrder, LAMBDA f : f \in files)

\* The walk descending into every directory it lists.
PruneNothing(dirs) == dirs

\* dirs[:] = [d for d in dirs if d not in ignore_patterns]
Prune(dirs) == SelectSeq(dirs, LAMBDA d : d \notin ignore_patterns)

WalkRuns ==
    [given : {TRUE}, tree : Trees, files : SUBSET Range(FileOrder),
     pc : {"walking"}, stack : {<< <<>> >>}, root : {<<>>},
     pending : {<<>>}, entered : {<<>>}, indexed : {<<>>}]

InitWalk ==
    /\ InitIndexer({[p \in Paths |-> Absent]})
    /\ Idle({"walk"})
    /\ walk_run \in WalkRuns

\* os.walk yields its next directory, top down: the loop prunes its dirs
\* list, which is what os.walk descends into next, before its files are
\* looked at.
NextDir ==
    /\ walk_run.given /\ walk_run.pc = "walking"
    /\ walk_run.pending = <<>> /\ walk_run.stack # <<>>
    /\ LET root == Head(walk_run.stack)
           dirs == Prune(SubDirs(walk_run.tree, root))
       IN  walk_run' =
             [walk_run EXCEPT
                !.root = root,
                !.stack = [i \in DOMAIN dirs |-> Append(root, dirs[i])]
                          \o Tail(walk_run.stack),
                !.pending = FilesOf(walk_run.files),
                !.entered = Append(@, root)]
    /\ UNCHANGED <<indexVars, scoreVars, cx, add_call, mgr, agent_run, risk, type_run, perf>>

\* One turn of `for file in files`: _index_file for a name ending in .py.
LoopFile ==
    /\ walk_run.given /\ walk_run.pc = "walking"
    /\ walk_run.pending # <<>>
    /\ LET file == Head(walk_run.pending)
       IN  walk_run' =
             [walk_run EXCEPT
                !.pending = Tail(@),
                !.indexed = IF EndsWithPy(file)
                            THEN Append(@, [dir |-> walk_run.root, file |-> file])
                            ELSE @]
    /\ UNCHANGED <<indexVars, scoreVars, cx, add_call, mgr, agent_run, risk, type_run, perf>>

\* os.walk is exhausted: index_codebase logs its completion and returns.
FinishWalk ==
    /\ walk_run.given /\ walk_run.pc = "walking"
    /\ walk_run.pending = <<>> /\ walk_run.stack = <<>>
    /\ walk_run' = [walk_run EXCEPT !.pc = "done"]
    /\ UNCHANGED <<indexVars, scoreVars, cx, add_call, mgr, agent_run, risk, type_run, perf>>

NextWalk == NextDir \/ LoopFile \/ FinishWalk

SpecWalk == InitWalk /\ [][NextWalk]_vars

\* ------------------------------------------------------------------ claims
\* The files of the latest run that exist and fail to parse / that parse.
FailingFiles == {p \in Paths : run_fs[p].exists /\ ~run_fs[p].ok}
ParsedFiles == {p \in Paths : run_fs[p].exists /\ run_fs[p].ok}
\* The latest index_codebase call has returned to its caller.
RunReturned == pc = "idle" /\ index_ret # NotReturned

\* C1: whatever subset of the files fails to parse, index_codebase returns
\* normally, and then every definition of every file that parses is a node
\* of the dependency graph with an edge to each name it refers to, and was
\* handed to the semantic index under its own file, name and lines.
C1_FailureIsolation ==
    RunReturned =>
         /\ index_ret = NoneValue
         /\ \A p \in FailingFiles : extracted[p] = <<>>
         /\ \A p \in ParsedFiles : \A i \in DOMAIN run_fs[p].nodes :
              LET n == run_fs[p].nodes[i]
              IN  /\ n.name \in dependency_graph.nodes
                  /\ \A d \in n.names : <<n.name, d>> \in dependency_graph.edges
                  /\ \E r \in submitted :
                        /\ r.id = <<p, n.name, i - 1>>
                        /\ r.metadata.file_path = p
                        /\ r.metadata.name = n.name
                        /\ r.metadata.start_line = n.lineno
                        /\ r.metadata.end_line = n.end_lineno

\* A run has returned over one file that fails to parse and one that parses.
C1_Witness ==
    /\ RunReturned
    /\ FailingFiles # {}
    /\ \E p \in ParsedFiles : run_fs[p].nodes # <<>>

\* The number of error records of the latest run that report file p as
\* failing to be indexed.
ParseFailures(p) ==
    Cardinality({i \in DOMAIN run_log :
                    run_log[i] = LogEntry("Error indexing file", p)})

\* C2 as stated: the call returns to its caller a completion status and a
\* list holding exactly the files that failed to parse.
C2_ReportedToCaller ==
    RunReturned =>
        /\ "failures" \in DOMAIN index_ret
        /\ index_ret.failures = FailingFiles

\* C2 amended: the call returns None, and the log of the run holds exactly
\* one "Error indexing file" record for each file that failed to parse and
\* none for a file that parsed.
C2_OneLogRecordPerFailure ==
    RunReturned =>
        /\ index_ret = NoneValue
        /\ \A p \in FailingFiles : ParseFailures(p) = 1
        /\ \A p \in Paths \ FailingFiles : ParseFailures(p) = 0

\* A run has returned over exactly one failing file beside a parsed one.
C2_Witness ==
    /\ RunReturned
    /\ Cardinality(FailingFiles) = 1
    /\ ParsedFiles # {}
    /\ \E p \in FailingFiles : ParseFailures(p) = 1

\* Every entity the latest run extracted.
AllExtracted == UNION {Range(extracted[p]) : p \in Paths}

\* C4: the performance_score of every extracted entity, function or class,
\* lies in [0.1, 1.0].
C4_PerformanceScoreBounds ==
    \A e \in AllExtracted :
        /\ e.performance_score.den > 0
        /\ 100 * e.performance_score.den <= e.performance_score.num
        /\ e.performance_score.num <= 1000 * e.performance_score.den

\* The graph the entities of one run give: a node per entity name and per
\* name referred to, an edge from each entity to each name it refers to.
GraphOfRun ==
    [nodes |-> {e.name : e \in AllExtracted}
               \cup UNION {e.dependencies : e \in AllExtracted},
     edges |-> UNION {{<<e.name, d>> : d \in e.dependencies} : e \in AllExtracted}]

\* C5: after every run the dependency graph holds exactly the nodes and
\* edges of the entities that run extracted.
C5_GraphIsLatestRun == RunReturned => dependency_graph = GraphOfRun

\* The inserts of the latest run that failed.
FailedInserts ==
    {i \in DOMAIN run_log :
        run_log[i].event \in {"Error adding to vector database",
                              "Error adding single entity"}}

\* C6: a run over the file set the run before it read hands the index the
\* same ids, no insert of it fails, the index then holds under each id the
\* text and metadata of the record handed to it, and the entities, scores
\* included, equal those of the run before.
C6_ReindexIdempotent ==
    (RunReturned /\ prev.valid /\ prev.fs = run_fs) =>
        /\ {r.id : r \in submitted} = prev.ids
        /\ FailedInserts = {}
        /\ \A r \in submitted :
              /\ r.id \in DOMAIN code_collection
              /\ code_collection[r.id] =
                     [document |-> r.document, metadata |-> r.metadata]
        /\ extracted = prev.extracted

\* The names one or more edges of G lead to from name n.
RECURSIVE ReachableFrom(_, _)
ReachableFrom(G, seen) ==
    LET more == {m \in G.nodes : \E k \in seen : <<k, m>> \in G.edges}
    IN  IF more \subseteq seen THEN seen ELSE ReachableFrom(G, seen \cup more)
OnCycle(G, n) ==
    n \in ReachableFrom(G, {m \in G.nodes : <<n, m>> \in G.edges})

\* The names analyze_dependencies_risk is asked about: every node and a
\* name that is no node.
AskedNames == dependency_graph.nodes \cup {"unknown"}

\* C7: in every state a suggestion call starts from, whenever
\* analyze_dependencies_risk returns, it flags the entity as circular exactly
\* when its name lies on a directed cycle of the dependency graph, and the
\* risk score of a flagged entity holds the 0.4 contribution on top of its
\* depth and fan terms.
C7_CircularIffOnCycle ==
    (pc = "idle" /\ ~suggest_out.called) =>
    \A n \in AskedNames : \A legacy \in BOOLEAN :
        LET r == analyze_dependencies_risk(dependency_graph, n, legacy)
            rest == Min(300, r.dependency_depth * 100)
                    + Min(150, r.direct_dependencies * 30)
                    + Min(150, r.dependent_modules * 30)
        IN  ~r.raised =>
              /\ r.circular_dependencies <=> OnCycle(dependency_graph, n)
              /\ r.risk_score = (IF OnCycle(dependency_graph, n) THEN 400 ELSE 0) + rest

\* The graph holds the cycle A -> B -> C -> A and a suggestion call has
\* returned all three entities flagged circular, each at least 0.4 at risk.
C7_Witness ==
    /\ {<<"A", "B">>, <<"B", "C">>, <<"C", "A">>} \subseteq dependency_graph.edges
    /\ suggest_out.called /\ ~suggest_out.raised
    /\ \A n \in {"A", "B", "C"} :
          \E i \in DOMAIN suggest_out.suggestions :
              LET g == suggest_out.suggestions[i]
              IN  /\ g.entity.name = n
                  /\ g.dependency_risks.circular_dependencies
                  /\ g.dependency_risks.risk_score >= 400

C10_RiskCountsSecurityFindings ==
    \A i \in DOMAIN suggest_out.suggestions :
        LET g == suggest_out.suggestions[i]
            findings == analyze_security(g.entity)
        IN  /\ g.risk_score =
                 Min(1000, g.dependency_risks.risk_score
                           + (IF findings # <<>> THEN 300 ELSE 0)
                           + 100 * Len(g.code_smells))
            /\ findings # <<>> => g.security_issues = SomeList(findings)

\* Every suggestion a call has handed back, from either specification.
Returned ==
    Range(suggest_out.suggestions)
    \cup (IF score_out.called THEN {score_out.suggestion} ELSE {})

\* C3: every suggestion has risk_score in [0, 1] and confidence in
\* [0.1, 1.0], whatever the dependency risk, the findings, the smells, the
\* dependency counts, the complexity and the summary.
C3_ScoreBounds ==
    \A g \in Returned :
        /\ 0 <= g.risk_score /\ g.risk_score <= 1000
        /\ 100 <= g.confidence /\ g.confidence <= 1000

\* A candidate whose unclamped risk exceeds 1 and whose unclamped confidence
\* is below 0.1 has been scored.
C3_Witness ==
    /\ score_out.called
    /\ score_in.dep_risk + 100 * Len(score_in.code_smells) > 1000
    /\ score_in.incoming + score_in.outgoing >= 6
    /\ score_out.suggestion.risk_score = 1000
    /\ score_out.suggestion.confidence = 100

\* C9: confidence is 0.5, +0.2 with a summary, -min(0.3, impact * 0.05),
\* -risk * 0.3, +max(0, 0.2 - complexity * 0.02) for every complexity the
\* entity has, zero included, clamped to [0.1, 1.0].
C9_ConfidenceFormula ==
    score_out.called =>
        LET g == score_out.suggestion
            c == score_in.complexity
            bonus == IF IsNone(c) THEN 0
                     ELSE Max(0, 200 - (20 * c.num) \div c.den)
            raw == 500 + (IF score_in.docstring THEN 200 ELSE 0)
                   - Min(300, g.impact_score \div 20)
                   - (g.risk_score * 3) \div 10 + bonus
        IN  g.confidence = Max(100, Min(1000, raw))

\* The nodes of the tree of the given classes.
NodesOf(kinds) == {i \in DOMAIN cx.nodes : cx.nodes[i].kind \in kinds}

\* C11: analyze_complexity returns 1 + the number of If, While and For
\* nodes + operands - 1 summed over the BoolOp nodes + handlers summed over
\* the Try nodes, and the call after one If node was added to the function
\* returns 1 more than the call before.
C11_ComplexityFormula ==
    /\ cx.complexity =
          1 + Cardinality(NodesOf({"If", "While", "For"}))
            + SumSeq([i \in DOMAIN cx.nodes |->
                        IF cx.nodes[i].kind = "BoolOp" THEN cx.nodes[i].n - 1
                        ELSE IF cx.nodes[i].kind = "Try" THEN cx.nodes[i].n
                        ELSE 0])
    /\ cx.added = "If" => cx.complexity = cx.before + 1

\* An If node was added inside a Try of two handlers, beside a BoolOp of
\* three operands.
C11_Witness ==
    /\ cx.added = "If"
    /\ cx.nodes[Len(cx.nodes)].parent # 0
    /\ \E i, j \in DOMAIN cx.nodes :
          /\ cx.nodes[i].kind = "Try" /\ cx.nodes[i].n = 2
          /\ cx.nodes[j].kind = "BoolOp" /\ cx.nodes[j].n = 3
    /\ cx.complexity = 6

\* The records of the call, and whether the store fails the bulk insert and
\* the single insert of a record.
AddRecs == Records(add_call.entities)
Refused(recs) ==
    add_call.store.dup_raises
    /\ \E i \in DOMAIN recs : recs[i].id \in DOMAIN add_call.coll
BulkFailed == add_call.store.bulk_fails \/ Refused(AddRecs)
SingleFailed(r) == r.id \in add_call.store.single_fails \/ Refused(<<r>>)
SingleErrors(r) ==
    {i \in DOMAIN add_call.log :
        add_call.log[i] = LogEntityEntry("Error adding single entity",
                                         r.metadata.file_path, r.id)}

\* C12: _add_to_vector_db always returns; when the bulk insert fails, every
\* record whose own insert succeeds is in the index afterwards (with its
\* text and metadata if the index did not hold its id), every record whose
\* own insert fails is logged exactly once and leaves the index as it was,
\* and no other id of the index changes.
C12_RetryEachRecordOnce ==
    (add_call.given /\ add_call.done /\ add_call.entities # <<>> /\ BulkFailed) =>
        /\ \A i \in DOMAIN AddRecs :
              LET r == AddRecs[i]
              IN  IF SingleFailed(r)
                  THEN /\ Cardinality(SingleErrors(r)) = 1
                       /\ r.id \in DOMAIN add_call.after
                              <=> r.id \in DOMAIN add_call.coll
                       /\ r.id \in DOMAIN add_call.coll =>
                              add_call.after[r.id] = add_call.coll[r.id]
                  ELSE /\ SingleErrors(r) = {}
                       /\ r.id \in DOMAIN add_call.after
                       /\ r.id \notin DOMAIN add_call.coll =>
                              add_call.after[r.id] =
                                  [document |-> r.document, metadata |-> r.metadata]
        /\ \A id \in DOMAIN add_call.coll :
              id \in DOMAIN add_call.after
        /\ DOMAIN add_call.after \subseteq
              DOMAIN add_call.coll \cup {AddRecs[i].id : i \in DOMAIN AddRecs}
        /\ Len(add_call.log) =
              1 + Cardinality({i \in DOMAIN AddRecs : SingleFailed(AddRecs[i])})

\* The bulk insert of two records failed, the first record's own insert
\* failed and the second record's own insert put it into the index.
C12_Witness ==
    /\ add_call.given /\ add_call.done /\ BulkFailed
    /\ Len(AddRecs) = 2
    /\ SingleFailed(AddRecs[1]) /\ ~SingleFailed(AddRecs[2])
    /\ AddRecs[2].id \notin DOMAIN add_call.coll
    /\ AddRecs[2].id \in DOMAIN add_call.after

\* C13: a suggest_modification_points call whose index query failed ends
\* in the exception reaching its caller: it returns no list, empty or not.
C13_QueryFailurePropagates ==
    (suggest_out.called /\ suggest_out.query_failed) =>
        /\ suggest_out.raised
        /\ suggest_out.suggestions = <<>>

\* The query of a call failed over an index that holds records of files
\* that exist.
C13_Witness ==
    /\ suggest_out.called /\ suggest_out.query_failed /\ suggest_out.raised
    /\ code_collection # EmptyCollection
    /\ \A id \in DOMAIN code_collection :
          fs[code_collection[id].metadata.file_path].exists

PreInfo == mgr.last.pre.active_tasks[mgr.last.task_id]
PostInfo == mgr.m.active_tasks[mgr.last.task_id]
LastCallWas(op) == mgr.built /\ mgr.last.op = op

CallEnded == agent_run.given /\ agent_run.pc \in {"returned", "raised"}

\* C18: execute_task_async never raises: for every task it returns a result
\* whose status is 'completed', 'failed' or 'cancelled' and that carries a
\* ci_cd_notification, and on return current_task, progress_callback and
\* cancel_event are all reset to None.
C18_NeverRaises ==
    CallEnded =>
        /\ agent_run.pc = "returned"
        /\ agent_run.status \in {"completed", "failed", "cancelled"}
        /\ agent_run.ci_cd_notification # "none"
        /\ agent_run.attrs = "None"

\* The length, in edges, of the longest simple path of G from n to one of
\* the names n has an edge to; 0 if there is no such path.
LongestSimplePath(G, n) ==
    LET outgoing == get_dependencies(G, n).outgoing
        paths == {p \in PathsFrom(G, <<n>>) :
                     Len(p) > 1 /\ Last(p) \in outgoing}
    IN  IF paths = {} THEN 0 ELSE SetMax({Len(p) - 1 : p \in paths})

\* C19: in every state a suggestion call starts from,
\* analyze_dependencies_risk reports for an entity, as its dependency depth,
\* the length of the longest simple path from the entity to any of its
\* outgoing dependents, and 0 when the entity has no outgoing edges.
C19_DepthIsLongestPath ==
    (pc = "idle" /\ ~suggest_out.called) =>
    \A n \in AskedNames : \A legacy \in BOOLEAN :
        LET r == analyze_dependencies_risk(dependency_graph, n, legacy)
        IN  /\ ~r.raised
            /\ r.dependency_depth = LongestSimplePath(dependency_graph, n)
            /\ get_dependencies(dependency_graph, n).outgoing = {}
                  => r.dependency_depth = 0

\* C20: the dependency risk score, in thousandths, equals
\* min(1000, (400 if circular else 0) + min(300, depth*100)
\*            + min(150, outgoing*30) + min(150, incoming*30))
\* for every circular flag and every non-negative depth, outgoing count and
\* incoming count, and so lies between 0 and 1000.
C20_RiskScoreFormula ==
    risk.called =>
        LET circular == IF risk.has_circular THEN 400 ELSE 0
            by_depth == IF risk.depth * 100 < 300 THEN risk.depth * 100 ELSE 300
            by_outgoing == IF risk.direct_deps * 30 < 150
                           THEN risk.direct_deps * 30 ELSE 150
            by_incoming == IF risk.dependents * 30 < 150
                           THEN risk.dependents * 30 ELSE 150
            sum == circular + by_depth + by_outgoing + by_incoming
        IN  /\ risk.score = IF sum < 1000 THEN sum ELSE 1000
            /\ risk.score >= 0 /\ risk.score <= 1000

\* The score was computed for a circular entity whose depth and fan counts
\* are all past their caps: every term is capped and the score is 1.
C20_Witness ==
    /\ risk.called
    /\ risk.has_circular
    /\ risk.depth > 3 /\ risk.direct_deps > 5 /\ risk.dependents > 5
    /\ risk.score = 1000

\* C21: in every state a suggestion call starts from,
\* analyze_dependencies_risk returns a result, on every release of networkx,
\* for every name: one that is no node of the graph, an entity with no
\* outgoing edge, an entity whose only outgoing edge leads to itself, an
\* entity on a cycle.
C21_RiskAnalysisReturns ==
    (pc = "idle" /\ ~suggest_out.called) =>
    \A n \in AskedNames : \A legacy \in BOOLEAN :
        ~analyze_dependencies_risk(dependency_graph, n, legacy).raised

\* C22: when suggest_modification_points is called on the index of the
\* tree as it stands (one run, no edit since, networkx of any release that
\* answers), then for every result list the index returns, whatever mix of
\* functions, types and functions nested in types it holds, the call
\* returns exactly one suggestion per returned entity.
C22_OneSuggestionPerResult ==
    (pc = "idle" /\ ~suggest_out.called /\ runs = 1 /\ edits = 0) =>
    \A q \in Queries :
        LET found == find_relevant_code(code_collection, fs, q, FALSE)
            r == suggest_modification_points(dependency_graph, code_collection,
                                             fs, q, FALSE, FALSE)
        IN  ~found.raised =>
              /\ ~r.raised
              /\ Len(r.suggestions) = Len(found.entities)
              /\ \A i \in DOMAIN found.entities :
                    \E j \in DOMAIN r.suggestions :
                        r.suggestions[j].entity = found.entities[i]

\* C23: for every entity a run extracted, code_snippet is the verbatim text
\* of lines start_line through end_line of its file, start_line <=
\* end_line, so what the analyzers read of it is what those lines hold.
C23_CodeTextIsLineRange ==
    RunReturned =>
    \A p \in Paths : \A i \in DOMAIN extracted[p] :
        LET entity == extracted[p][i]
        IN  /\ entity.start_line <= entity.end_line
            /\ entity.code_snippet.unit = "lines"
            /\ entity.code_snippet.from = entity.start_line
            /\ entity.code_snippet.to = entity.end_line
            /\ entity.code_snippet =
                   Snippet("lines", LinesAt(run_fs[p], entity.start_line,
                                            entity.end_line))

\* The function entities a run extracted from inside the lines of the class.
TypeEntity == type_run.entities[1]
NestedFunctions ==
    {j \in DOMAIN type_run.entities :
        /\ type_run.entities[j].type = "function"
        /\ type_run.entities[j].start_line > TypeEntity.start_line
        /\ type_run.entities[j].end_line <= TypeEntity.end_line}

\* C24: the complexity of a class entity is the arithmetic mean of the
\* complexities of the function entities nested in it, and 0 when it has
\* none.
C24_TypeComplexityIsMean ==
    type_run.given =>
        LET count == Cardinality(NestedFunctions)
            total == SumSeq([j \in 1..Len(type_run.entities) - 1 |->
                               type_run.entities[j + 1].complexity.num])
        IN  /\ TypeEntity.type = "class"
            /\ ~IsNone(TypeEntity.complexity)
            /\ \A j \in NestedFunctions : type_run.entities[j].complexity.den = 1
            /\ count = Len(type_run.entities) - 1
            /\ IF count = 0 THEN TypeEntity.complexity.num = 0
               ELSE TypeEntity.complexity.num * count
                        = total * TypeEntity.complexity.den

\* A class with three methods of complexities 1, 4 and 8: a mean, 13/3,
\* that is none of them.
C24_Witness ==
    /\ type_run.given
    /\ Len(type_run.entities) = 4
    /\ type_run.entities[2].complexity = Num(1)
    /\ type_run.entities[3].complexity = Num(4)
    /\ type_run.entities[4].complexity = Num(8)
    /\ TypeEntity.complexity.num * 3 = 13 * TypeEntity.complexity.den

\* The penalty the time class of an estimate draws from the table.
TimePenalty(time_complexity) == Penalty(time_complexity, 500)

\* C25: over the classes the time estimator produces, the complexity
\* penalty never decreases as the class grows and never exceeds the 0.8 of
\* the exponential class: a function that gets one more loop, all else
\* equal, draws at least the penalty it drew before and gets no higher a
\* performance_score.
C25_PenaltyMonotone ==
    (perf.given /\ perf.added = "loop") =>
        /\ TimePenalty(perf.before.time_complexity)
               <= TimePenalty(perf.time_complexity)
        /\ TimePenalty(perf.time_complexity) <= 800
        /\ perf.performance_score <= perf.before.performance_score

\* C26: the space-complexity estimate of a function is O(n) if it calls
\* itself or if a list, map or set literal occurs in its subtree, and O(1)
\* otherwise.
C26_SpaceEstimate ==
    perf.given =>
        perf.space_complexity =
            IF perf.node.selfcalls \/ perf.literals # {}
            THEN Class("O(n)", 0) ELSE Class("O(1)", 0)

\* C27: the safety_checks of a suggestion start with the backup and the
\* new-branch items and end with the four closing items in their order;
\* between them come, in this order, the two dependent-module and
\* interface items iff the entity has an incoming dependency, one item per
\* security finding, one item per code smell, and the two complexity items
\* iff complexity > 10.  Its length is
\* 6 + 2*[incoming > 0] + findings + smells + 2*[complexity > 10].
C27_SafetyChecksLayout ==
    score_out.called =>
        LET s == score_out.suggestion
            checks == s.safety_checks
            findings == IF s.security_issues.some THEN s.security_issues.val
                        ELSE <<>>
            a == IF s.dependencies.incoming # {} THEN 2 ELSE 0
            f == Len(findings)
            m == Len(s.code_smells)
            c == IF ~IsNone(s.entity.complexity)
                    /\ s.entity.complexity.num > 10 * s.entity.complexity.den
                 THEN 2 ELSE 0
            n == Len(checks)
        IN  /\ n = 6 + a + f + m + c
            /\ checks[1] = "Create backup of affected files"
            /\ checks[2] = "Create new feature branch"
            /\ a = 2 => /\ checks[3] = "Test all dependent modules"
                        /\ checks[4] = "Verify interface compatibility"
            /\ \A k \in 1..f :
                  checks[2 + a + k] = <<"Address security issue", findings[k]>>
            /\ \A k \in 1..m :
                  checks[2 + a + f + k] = <<"Consider refactoring", s.code_smells[k]>>
            /\ c = 2 => /\ checks[n - 5] = "Consider breaking down complex logic"
                        /\ checks[n - 4] = "Add detailed inline documentation"
            /\ checks[n - 3] = "Add/update unit tests"
            /\ checks[n - 2] = "Add/update integration tests"
            /\ checks[n - 1] = "Verify error handling"
            /\ checks[n] = "Check edge cases"

\* A suggestion for an entity with dependents, two findings, smells and a
\* complexity of 12: every optional group is present, 6 + 2 + 2 + 3 + 2
\* items.
C27_Witness ==
    /\ score_out.called
    /\ score_out.suggestion.dependencies.incoming # {}
    /\ Len(score_out.suggestion.security_issues.val) = 2
    /\ Len(score_out.suggestion.code_smells) = 3
    /\ score_out.suggestion.entity.complexity = Num(12)
    /\ Len(score_out.suggestion.safety_checks) = 15

\* A directory that lies beneath no directory of an ignored name and has
\* no such name itself.
NotIgnored(dir) == \A i \in DOMAIN dir : dir[i] \notin ignore_patterns
TimesIndexed(dir, file) ==
    Cardinality({i \in DOMAIN walk_run.indexed :
                    walk_run.indexed[i] = [dir |-> dir, file |-> file]})

\* C28: during a run the walker enters no directory of an ignored name, so
\* no file beneath one, at any depth, is indexed and no file is indexed
\* twice; when the run is over, every .py file that is not beneath an
\* ignored directory has been passed to _index_file exactly once.
C28_WalkPrunesIgnored ==
    walk_run.given =>
        /\ \A i \in DOMAIN walk_run.entered : NotIgnored(walk_run.entered[i])
        /\ \A i \in DOMAIN walk_run.indexed :
              /\ NotIgnored(walk_run.indexed[i].dir)
              /\ EndsWithPy(walk_run.indexed[i].file)
              /\ TimesIndexed(walk_run.indexed[i].dir,
                              walk_run.indexed[i].file) = 1
        /\ walk_run.pc = "done" =>
              \A dir \in walk_run.tree : \A file \in walk_run.files :
                  (NotIgnored(dir) /\ EndsWithPy(file))
                      => TimesIndexed(dir, file) = 1

\* A finished run over a tree with a .py file in pkg/pkg, in venv and in
\* pkg/venv: the first was indexed, those under venv were not.
C28_Witness ==
    /\ walk_run.given /\ walk_run.pc = "done"
    /\ {<<"pkg", "pkg">>, <<"venv">>, <<"pkg", "venv">>} \subseteq walk_run.tree
    /\ [stem |-> "m", ext |-> "py"] \in walk_run.files
    /\ TimesIndexed(<<"pkg", "pkg">>, [stem |-> "m", ext |-> "py"]) = 1
    /\ TimesIndexed(<<"venv">>, [stem |-> "m", ext |-> "py"]) = 0
    /\ TimesIndexed(<<"pkg", "venv">>, [stem |-> "m", ext |-> "py"]) = 0

\* How often a task id occurs in task_queue.
TimesQueued(m, task_id) ==
    Cardinality({i \in DOMAIN m.task_queue : m.task_queue[i].id = task_id})

\* C29: after any sequence of add_task, cancel_task and execute_task
\* calls, add_task on a known id included, a task id occurs in task_queue
\* if and only if its recorded status is 'queued', and at most once.
C29_QueueMatchesStatus ==
    mgr.built =>
        \A task_id \in TaskIds :
            /\ (TimesQueued(mgr.m, task_id) > 0)
                   <=> (mgr.m.active_tasks[task_id].status = "queued")
            /\ TimesQueued(mgr.m, task_id) <= 1

====
